---- MODULE Spec2Model ----
(***************************************************************************)
(* A model of the Riot rate limiter of services/api                        *)
(* (app/services/rate_limiter.py): the sliding-window store kept in Redis  *)
(* sorted sets, the bucket tables DEFAULT_LIMITS and METHOD_LIMITS, the    *)
(* global retry-after deadline, check_limit, wait_if_needed and            *)
(* update_from_headers.                                                    *)
(*                                                                         *)
(* Time is the wall clock of time.time() counted in whole seconds.  Header *)
(* values are sequences of one-character strings, so that splitting,       *)
(* stripping and int() are computed the way the Python code computes them. *)
(***************************************************************************)
EXTENDS Integers, Sequences, FiniteSets, TLC

VARIABLES
    now,             \* time.time(), in seconds
    retry_after,     \* RiotRateLimiter._retry_after
    DEFAULT_LIMITS,  \* RiotRateLimiter.DEFAULT_LIMITS: app bucket -> config
    METHOD_LIMITS,   \* RiotRateLimiter.METHOD_LIMITS: bucket -> config (a dict: its domain grows)
    redis,           \* Redis key -> sorted set, as the ascending sequence of its scores
    expireAt,        \* Redis key -> time at which the key expires (0: no such key)
    task,            \* caller -> the frame of its wait_if_needed call
    hist,            \* caller -> what its current call has done so far (history)
    last,            \* the last operation a sequential caller made, with its result (history)
    client,          \* client -> the frame of its RiotApiClient._get_json call
    db,              \* the database: the rows of the match and riot_account_match tables
    sync,            \* worker -> the frame of its upsert_matches_for_riot_account call
    riot_account,    \* the rows of the riot_account table
    upsert,          \* worker -> the frame of its upsert_riot_account call
    game_info,       \* Match.id -> the row's game_info column, where it is not NULL
    arq,             \* the ARQ queue: the jobs queued, and the keys of those that have run
    enqueue,         \* caller -> the frame of its enqueue_missing_detail_jobs call
    detail,          \* worker -> the frame of its fetch_match_details_job run
    ingest,          \* worker -> the frame of its fetch_riot_account_matches_job run
    sched,           \* the frame of the scheduler's sync_all_riot_accounts_matches run
    pool             \* arq_pool: the module's _arq_pool_task, the pools made and the callers' frames

vars == <<now, retry_after, DEFAULT_LIMITS, METHOD_LIMITS, redis, expireAt, task, hist, last,
          client, db, sync, riot_account, upsert, game_info, arq, enqueue, detail, ingest, sched, pool>>

\* The state of the scheduler and of the shared ARQ pool
svcvars == <<sched, pool>>

\* The state of the account upsert and of the background jobs
jobvars == <<riot_account, upsert, game_info, arq, enqueue, detail, ingest, svcvars>>

----------------------------------------------------------------------------
(* Bounds of the model. *)

MaxTime == 3        \* the clock stops ticking here
NumCallers == 2     \* concurrent wait_if_needed callers
MaxCalls == 1       \* wait_if_needed calls each caller makes
MaxRetryAfter == 2  \* largest Retry-After handed to set_retry_after
MaxJitter == 1      \* largest whole-second jitter sampled from random.random()
MaxStore == 3       \* entries a sequential caller lets one sorted set hold

----------------------------------------------------------------------------
(* Python's str operations, over sequences of one-character strings. *)

IsSpace(c) == c = " "

RECURSIVE LStrip(_)
LStrip(s) == IF s # <<>> /\ IsSpace(Head(s)) THEN LStrip(Tail(s)) ELSE s

RECURSIVE RStrip(_)
RStrip(s) ==
    IF s # <<>> /\ IsSpace(s[Len(s)]) THEN RStrip(SubSeq(s, 1, Len(s) - 1)) ELSE s

Strip(s) == RStrip(LStrip(s))

Contains(s, c) == \E i \in 1..Len(s) : s[i] = c

IndexOf(s, c) == CHOOSE i \in 1..Len(s) : s[i] = c /\ \A j \in 1..(i - 1) : s[j] # c

\* s.split(c): "" splits to [""]
RECURSIVE SplitOn(_, _)
SplitOn(s, c) ==
    IF ~Contains(s, c) THEN <<s>>
    ELSE LET i == IndexOf(s, c)
         IN  <<SubSeq(s, 1, i - 1)>> \o SplitOn(SubSeq(s, i + 1, Len(s)), c)

DigitChars == <<"0", "1", "2", "3", "4", "5", "6", "7", "8", "9">>

IsDigit(c) == \E d \in 1..10 : DigitChars[d] = c

DigitVal(c) == (CHOOSE d \in 1..10 : DigitChars[d] = c) - 1

RECURSIVE Decimal(_)
Decimal(s) ==
    IF s = <<>> THEN 0
    ELSE 10 * Decimal(SubSeq(s, 1, Len(s) - 1)) + DigitVal(s[Len(s)])

\* int(s): surrounding whitespace, an optional sign, then one or more digits;
\* anything else raises ValueError.
IntBody(s) ==
    LET t == Strip(s)
    IN  IF t # <<>> /\ Head(t) \in {"-", "+"} THEN Tail(t) ELSE t

IntParses(s) ==
    LET u == IntBody(s)
    IN  u # <<>> /\ \A i \in 1..Len(u) : IsDigit(u[i])

IntValue(s) ==
    LET t == Strip(s)
    IN  IF Head(t) = "-" THEN 0 - Decimal(IntBody(s)) ELSE Decimal(IntBody(s))

----------------------------------------------------------------------------
(* _parse_rate_limit_header: "20:1,100:120" -> <<(20, 1), (100, 120)>> *)

ParseChunk(part) ==
    LET chunk == Strip(part)
    IN  IF chunk = <<>> \/ ~Contains(chunk, ":") THEN <<>>
        ELSE LET i == IndexOf(chunk, ":")
                 max_str == SubSeq(chunk, 1, i - 1)
                 window_str == SubSeq(chunk, i + 1, Len(chunk))
             IN  IF IntParses(max_str) /\ IntParses(window_str)
                 THEN << <<IntValue(max_str), IntValue(window_str)>> >>
                 ELSE <<>>   \* ValueError: logged, the chunk is skipped

RECURSIVE ParseParts(_)
ParseParts(parts) ==
    IF parts = <<>> THEN <<>>
    ELSE ParseChunk(Head(parts)) \o ParseParts(Tail(parts))

ParseRateLimitHeader(value) == ParseParts(SplitOn(value, ","))

\* list.sort(key=lambda item: item[1]): stable, ascending by window
RECURSIVE InsertByWindow(_, _)
InsertByWindow(sorted, item) ==
    IF sorted = <<>> THEN <<item>>
    ELSE IF Head(sorted)[2] <= item[2]
         THEN <<Head(sorted)>> \o InsertByWindow(Tail(sorted), item)
         ELSE <<item>> \o sorted

RECURSIVE SortFrom(_, _)
SortFrom(sorted, rest) ==
    IF rest = <<>> THEN sorted
    ELSE SortFrom(InsertByWindow(sorted, Head(rest)), Tail(rest))

\* A slip: the pairs left in header order
SortByWindow_unsorted(pairs) == pairs

SortByWindow(pairs) == SortFrom(<<>>, pairs)

RateLimitConfig(max, window) == [max_requests |-> max, window_seconds |-> window]

----------------------------------------------------------------------------
(* Header values the upstream can send, as Python strings. *)

S_application == <<"a", "p", "p", "l", "i", "c", "a", "t", "i", "o", "n">>
S_method == <<"m", "e", "t", "h", "o", "d">>
H_20_1_100_120 == <<"2", "0", ":", "1", ",", "1", "0", "0", ":", "1", "2", "0">>   \* "20:1,100:120"
H_100_120_20_1 == <<"1", "0", "0", ":", "1", "2", "0", ",", "2", "0", ":", "1">>   \* "100:120,20:1"
H_three == <<"5", "0", ":", "1", "0", ",", " ", "2", "0", ":", "1", " ", ",", "1", "0", "0", ":", "1", "2", "0">>   \* "50:10, 20:1 ,100:120"
H_1000_60 == <<"1", "0", "0", "0", ":", "6", "0">>   \* "1000:60"
H_30_10_500_5 == <<"3", "0", ":", "1", "0", ",", "5", "0", "0", ":", "5">>   \* "30:10,500:5"
H_1_1_2_3 == <<"1", ":", "1", ",", "2", ":", "3">>   \* "1:1,2:3"
H_2_3_1_1 == <<"2", ":", "3", ",", "1", ":", "1">>   \* "2:3,1:1"
H_1_2 == <<"1", ":", "2">>   \* "1:2"
H_2_1 == <<"2", ":", "1">>   \* "2:1"
H_0_1 == <<"0", ":", "1">>   \* "0:1"
H_neg == <<"-", "1", ":", "2", ",", "3", ":", "-", "4">>   \* "-1:2,3:-4"
H_bad == <<"2", "x", ":", "1", ",", ",", "7", ",", "1", ":", "2", ":", "3", ",", "+", "4", ":", "5">>   \* "2x:1,,7,1:2:3,+4:5"
H_junk == <<"a", "b", "c">>   \* "abc"
H_empty == <<>>   \* ""

----------------------------------------------------------------------------
(* update_from_headers *)

\* key.lower() of the header names the limiter reads
HeaderLower(name) ==
    CASE name = "X-App-Rate-Limit" -> "x-app-rate-limit"
      [] name = "X-Method-Rate-Limit" -> "x-method-rate-limit"
      [] name = "X-Rate-Limit" -> "x-rate-limit"
      [] name = "X-Rate-Limit-Type" -> "x-rate-limit-type"
      [] OTHER -> name

NormalizedHeaders(headers) ==
    [n \in {HeaderLower(k) : k \in DOMAIN headers} |->
        headers[CHOOSE k \in DOMAIN headers : HeaderLower(k) = n]]

\* `if header:` on the result of dict.get: the key is there and its value is not ""
Truthy(nh, name) == name \in DOMAIN nh /\ nh[name] # <<>>

\* dict[key] = value
SetItem(d, key, value) ==
    [k \in DOMAIN d \cup {key} |-> IF k = key THEN value ELSE d[k]]

ConfigOf(pair) == RateLimitConfig(pair[1], pair[2])

\* DEFAULT_LIMITS["app_short"] = smallest; DEFAULT_LIMITS["app_long"] = largest
SetAppLimits(D, sorted) ==
    SetItem(SetItem(D, "app_short", ConfigOf(sorted[1])),
            "app_long", ConfigOf(sorted[Len(sorted)]))

\* A slip: the pair with the largest window
MostRestrictive_last(sorted) == sorted[Len(sorted)]

\* max_requests, window_seconds = parsed[0] of the sorted pairs
MostRestrictive(sorted) == sorted[1]

\* A slip: the fallback taken whenever the legacy header is there
LegacyApplies_always(app, method, legacy) == legacy

\* The legacy fallback: the guard of its early return
LegacyApplies(app, method, legacy) == ~(app \/ method \/ ~legacy)

\* The tables (D: DEFAULT_LIMITS, M: METHOD_LIMITS) after update_from_headers
UpdateFromHeaders(D, M, bucket, headers) ==
    LET nh == NormalizedHeaders(headers)
        app == Truthy(nh, "x-app-rate-limit")
        method == Truthy(nh, "x-method-rate-limit")
        legacy == Truthy(nh, "x-rate-limit")
        parsed_app ==
            IF app THEN SortByWindow(ParseRateLimitHeader(nh["x-app-rate-limit"])) ELSE <<>>
        parsed_method ==
            IF method THEN SortByWindow(ParseRateLimitHeader(nh["x-method-rate-limit"]))
            ELSE <<>>
        D1 == IF parsed_app # <<>> THEN SetAppLimits(D, parsed_app) ELSE D
        M1 == IF parsed_method # <<>> THEN SetItem(M, bucket, ConfigOf(MostRestrictive(parsed_method))) ELSE M
    IN  IF ~LegacyApplies(app, method, legacy) THEN [D |-> D1, M |-> M1]
        ELSE LET parsed_legacy == SortByWindow(ParseRateLimitHeader(nh["x-rate-limit"]))
             IN  IF parsed_legacy = <<>> THEN [D |-> D1, M |-> M1]
                 ELSE IF "x-rate-limit-type" \in DOMAIN nh
                         /\ nh["x-rate-limit-type"] = S_application
                      THEN [D |-> SetAppLimits(D1, parsed_legacy), M |-> M1]
                      ELSE [D |-> D1, M |-> SetItem(M1, bucket, ConfigOf(MostRestrictive(parsed_legacy)))]

\* The class attributes as written in the source
DefaultLimits ==
    [b \in {"app_short", "app_long"} |->
        IF b = "app_short" THEN RateLimitConfig(20, 1) ELSE RateLimitConfig(100, 120)]

MethodLimits ==
    [b \in {"account", "summoner", "rank", "match_ids", "match_detail"} |->
        IF b \in {"account", "summoner", "rank"}
        THEN RateLimitConfig(20, 1) ELSE RateLimitConfig(2000, 10)]

\* The two global buckets, in the order the code walks them
AppBuckets == <<"app_short", "app_long">>

\* Bucket names handed to update_from_headers: the endpoint's bucket
EndpointBuckets == {"account", "unknown"}

\* Bucket names handed to check_limit and wait_if_needed
BucketNames == {"app_short", "app_long", "account", "match_ids", "unknown"}

\* Response headers of the upstream, full-size limits
HeaderCases ==
    { <<>>,
      "X-App-Rate-Limit" :> H_20_1_100_120,
      "x-app-rate-limit" :> H_100_120_20_1,
      "X-App-Rate-Limit" :> H_three,
      "X-App-Rate-Limit" :> H_0_1,
      "X-Method-Rate-Limit" :> H_1000_60,
      "x-method-rate-limit" :> H_30_10_500_5,
      "X-Method-Rate-Limit" :> H_neg,
      "X-Method-Rate-Limit" :> H_bad,
      ("X-App-Rate-Limit" :> H_30_10_500_5) @@ ("X-Method-Rate-Limit" :> H_1000_60),
      ("X-Rate-Limit" :> H_100_120_20_1) @@ ("X-Rate-Limit-Type" :> S_application),
      ("X-Rate-Limit" :> H_30_10_500_5) @@ ("X-Rate-Limit-Type" :> S_method),
      "x-rate-limit" :> H_1000_60,
      "X-Rate-Limit" :> H_junk,
      ("X-App-Rate-Limit" :> H_20_1_100_120) @@ ("X-Rate-Limit" :> H_30_10_500_5)
          @@ ("X-Rate-Limit-Type" :> S_application),
      ("X-Method-Rate-Limit" :> H_1000_60) @@ ("X-Rate-Limit" :> H_1_1_2_3)
          @@ ("X-Rate-Limit-Type" :> S_application),
      ("X-App-Rate-Limit" :> H_junk) @@ ("X-Rate-Limit" :> H_1_2),
      ("X-App-Rate-Limit" :> H_empty) @@ ("X-Rate-Limit" :> H_2_1)
          @@ ("X-Rate-Limit-Type" :> S_method) }

\* Response headers that bring the limits down to sizes a few requests fill
SmallHeaderCases ==
    { ("X-App-Rate-Limit" :> H_1_1_2_3) @@ ("X-Method-Rate-Limit" :> H_1_2),
      ("X-App-Rate-Limit" :> H_2_3_1_1) @@ ("X-Method-Rate-Limit" :> H_2_1),
      "X-Method-Rate-Limit" :> H_0_1 }

----------------------------------------------------------------------------
(* The sliding-window store: Redis sorted sets under keys rl:<bucket> *)

GetKey(bucket) == "rl:" \o bucket

Keys == {GetKey(b) : b \in BucketNames}

\* ZADD: one more member (request ids are "<now>:<random>", taken as unique)
\* with this score, the set kept in ascending order of score
RECURSIVE ZAdd(_, _)
ZAdd(zset, score) ==
    IF zset = <<>> THEN <<score>>
    ELSE IF Head(zset) <= score THEN <<Head(zset)>> \o ZAdd(Tail(zset), score)
         ELSE <<score>> \o zset

\* ZREMRANGEBYSCORE key -inf window_start: both ends inclusive
ZRemRangeByScore(zset, window_start) == SelectSeq(zset, LAMBDA score : score > window_start)

\* _get_window_state: the pipeline ZREMRANGEBYSCORE, ZCARD, ZRANGE 0 0 WITHSCORES.
\* oldest is the set holding the lowest score, empty for None.  A sorted set
\* left empty is no key any more.
GetWindowState(key, window_start) ==
    LET kept == ZRemRangeByScore(redis[key], window_start)
    IN  [redis |-> [redis EXCEPT ![key] = kept],
         expireAt |-> [expireAt EXCEPT ![key] = IF kept = <<>> THEN 0 ELSE @],
         count |-> Len(kept),
         oldest |-> IF kept = <<>> THEN {} ELSE {Head(kept)}]

\* _record_request: the pipeline ZADD key {id: now}, EXPIRE key ttl+1, on the
\* store R with expiry times E.  EXPIRE with a timeout of 0 or less deletes the key.
RecordRequest(R, E, key, score, ttl_seconds) ==
    IF ttl_seconds + 1 <= 0
    THEN [redis |-> [R EXCEPT ![key] = <<>>], expireAt |-> [E EXCEPT ![key] = 0]]
    ELSE [redis |-> [R EXCEPT ![key] = ZAdd(@, score)],
          expireAt |-> [E EXCEPT ![key] = now + ttl_seconds + 1]]

\* Keys whose expiry time has come are gone
Expired(R, E, t) == {k \in DOMAIN R : R[k] # <<>> /\ E[k] <= t}

\* limit = self.DEFAULT_LIMITS.get(bucket) or self.METHOD_LIMITS.get(bucket)
HasLimit(bucket) == bucket \in DOMAIN DEFAULT_LIMITS \/ bucket \in DOMAIN METHOD_LIMITS

LimitOf(bucket) ==
    IF bucket \in DOMAIN DEFAULT_LIMITS THEN DEFAULT_LIMITS[bucket] ELSE METHOD_LIMITS[bucket]

Max(a, b) == IF a >= b THEN a ELSE b

Min(a, b) == IF a <= b THEN a ELSE b

\* a / b of two numbers, b # 0: the whole part of the quotient, with its sign
Quotient(a, b) ==
    LET q == (IF a < 0 THEN 0 - a ELSE a) \div (IF b < 0 THEN 0 - b ELSE b)
    IN  IF (a < 0) = (b < 0) THEN q ELSE 0 - q

\* A slip: the deadline itself still counts as cooldown
InCooldown_inclusive(t) == retry_after >= t

\* The cooldown test of check_limit
InCooldown(t) == retry_after > t

\* The full-bucket test of check_limit
OverLimit(count, limit) == count >= limit.max_requests

\* check_limit(bucket) at time now: (allowed, wait), the store after its
\* eviction, and raised = TRUE when the fallback wait divides by zero.
CheckLimit(bucket) ==
    LET same == [redis |-> redis, expireAt |-> expireAt, count |-> 0]
    IN  IF InCooldown(now)
        THEN [allowed |-> FALSE, wait |-> retry_after - now, raised |-> FALSE,
              why |-> "cooldown"] @@ same
        ELSE IF ~HasLimit(bucket)
        THEN [allowed |-> TRUE, wait |-> 0, raised |-> FALSE, why |-> "unknown"] @@ same
        ELSE
        LET limit == LimitOf(bucket)
            ws == GetWindowState(GetKey(bucket), now - limit.window_seconds)
            store == [redis |-> ws.redis, expireAt |-> ws.expireAt, count |-> ws.count]
        IN  IF OverLimit(ws.count, limit)
            THEN IF ws.oldest # {}
                 THEN [allowed |-> FALSE, raised |-> FALSE, why |-> "full",
                       wait |-> Max(0, (CHOOSE o \in ws.oldest : TRUE)
                                        + limit.window_seconds - now)] @@ store
                 ELSE IF limit.max_requests = 0
                 THEN [allowed |-> FALSE, raised |-> TRUE, why |-> "full", wait |-> 0] @@ store
                 ELSE [allowed |-> FALSE, raised |-> FALSE, why |-> "full",
                       wait |-> Quotient(limit.window_seconds, limit.max_requests)] @@ store
            ELSE [allowed |-> TRUE, wait |-> 0, raised |-> FALSE, why |-> "free"] @@ store

----------------------------------------------------------------------------
(* The state after construction *)

\* The frame of a caller that is in no wait_if_needed call
IdleFrame ==
    [pc |-> "idle", bucket |-> "account", retries |-> 0, stage |-> 1,
     recNow |-> 0, recorded |-> {}, wakeAt |-> 0]

\* What a call has done so far (history): check passes begun, sleeps ended,
\* the buckets that admitted in the current pass, _record_request calls made
\* per bucket
NoHistory ==
    [calls |-> 0, passes |-> 0, sleeps |-> 0, admitted |-> {},
     inserted |-> [b \in BucketNames |-> 0]]

InitStore ==
    /\ now = 0
    /\ retry_after = 0
    /\ redis = [k \in Keys |-> <<>>]
    /\ expireAt = [k \in Keys |-> 0]

InitTables ==
    /\ DEFAULT_LIMITS = DefaultLimits
    /\ METHOD_LIMITS = MethodLimits

NoTasks ==
    /\ task = [c \in {} |-> IdleFrame]
    /\ hist = [c \in {} |-> NoHistory]

\* No RiotApiClient is at work
NoClients == client = << >>

\* No sync pass is at work, and the tables are empty
NoSync ==
    /\ db = [matches |-> {}, links |-> {}]
    /\ sync = << >>

\* No account upsert is at work
NoAccounts ==
    /\ riot_account = {}
    /\ upsert = << >>

\* No match has its details, the queue is empty and nothing works on it
NoDetails ==
    /\ game_info = << >>
    /\ arq = [queued |-> << >>, done |-> {}]
    /\ enqueue = << >>
    /\ detail = << >>

\* No ingestion job runs
NoIngest == ingest = << >>

NoServices ==
    /\ sched = << >>
    /\ pool = << >>

NoJobs == NoAccounts /\ NoDetails /\ NoIngest /\ NoServices

----------------------------------------------------------------------------
(* SpecHdr: the limiter's tables under a stream of upstream responses *)

InitHdr ==
    /\ InitStore
    /\ NoClients
    /\ NoSync
    /\ NoJobs
    /\ InitTables
    /\ NoTasks
    /\ last = [op |-> "none"]

\* update_from_headers(bucket, headers); last keeps the call and the tables before it
Update(bucket, headers) ==
    LET r == UpdateFromHeaders(DEFAULT_LIMITS, METHOD_LIMITS, bucket, headers)
    IN  /\ DEFAULT_LIMITS' = r.D
        /\ METHOD_LIMITS' = r.M
        /\ last' = [op |-> "update", bucket |-> bucket, headers |-> headers,
                    D |-> DEFAULT_LIMITS, M |-> METHOD_LIMITS]
        /\ UNCHANGED <<now, retry_after, redis, expireAt, task, hist, client, db, sync, jobvars>>

NextHdr == \E bucket \in EndpointBuckets, headers \in HeaderCases : Update(bucket, headers)

SpecHdr == InitHdr /\ [][NextHdr]_vars

----------------------------------------------------------------------------
(* Properties of update_from_headers, over SpecHdr *)

HeaderValue(headers, name) == NormalizedHeaders(headers)[name]

HasHeader(headers, name) == Truthy(NormalizedHeaders(headers), name)

Present(headers, name) == name \in DOMAIN NormalizedHeaders(headers)

PairsOf(headers, name) == ParseRateLimitHeader(HeaderValue(headers, name))

PairSet(pairs) == {pairs[i] : i \in 1..Len(pairs)}

DistinctWindows(pairs) ==
    \A i, j \in 1..Len(pairs) : i # j => pairs[i][2] # pairs[j][2]

IsSmallestWindow(cfg, pairs) ==
    /\ \E i \in 1..Len(pairs) : ConfigOf(pairs[i]) = cfg
    /\ \A j \in 1..Len(pairs) : pairs[j][2] >= cfg.window_seconds

IsLargestWindow(cfg, pairs) ==
    /\ \E i \in 1..Len(pairs) : ConfigOf(pairs[i]) = cfg
    /\ \A j \in 1..Len(pairs) : pairs[j][2] <= cfg.window_seconds

OtherMethodsKept(bucket) ==
    /\ DOMAIN METHOD_LIMITS = DOMAIN last.M \cup (DOMAIN METHOD_LIMITS \cap {bucket})
    /\ \A b \in DOMAIN last.M \ {bucket} : METHOD_LIMITS[b] = last.M[b]

\* C7: an application header of one or more pairs sets app_short to a pair of
\* the smallest window and app_long to a pair of the largest window, whatever
\* the order of the pairs in the header: "20:1,100:120" and "100:120,20:1"
\* both give 20 per 1 s and 100 per 120 s, and any other header of the model
\* holding the same pairs would have given the same two buckets.
C7_AppHeaderSetsShortAndLong ==
    (last.op = "update" /\ HasHeader(last.headers, "x-app-rate-limit")
        /\ PairsOf(last.headers, "x-app-rate-limit") # <<>>) =>
    LET pairs == PairsOf(last.headers, "x-app-rate-limit")
    IN  /\ IsSmallestWindow(DEFAULT_LIMITS["app_short"], pairs)
        /\ IsLargestWindow(DEFAULT_LIMITS["app_long"], pairs)
        /\ PairSet(pairs) = {<<20, 1>>, <<100, 120>>} =>
              /\ DEFAULT_LIMITS["app_short"] = RateLimitConfig(20, 1)
              /\ DEFAULT_LIMITS["app_long"] = RateLimitConfig(100, 120)
        /\ \A h2 \in HeaderCases :
              (/\ HasHeader(h2, "x-app-rate-limit")
               /\ PairSet(PairsOf(h2, "x-app-rate-limit")) = PairSet(pairs)
               /\ DistinctWindows(pairs)
               /\ DistinctWindows(PairsOf(h2, "x-app-rate-limit")))
              => UpdateFromHeaders(last.D, last.M, last.bucket, h2).D = DEFAULT_LIMITS

\* The header "100:120,20:1" has replaced other global limits by 20/1 and 100/120
C7_Witness ==
    /\ last.op = "update"
    /\ HasHeader(last.headers, "x-app-rate-limit")
    /\ HeaderValue(last.headers, "x-app-rate-limit") = H_100_120_20_1
    /\ last.D["app_short"] # RateLimitConfig(20, 1)
    /\ DEFAULT_LIMITS["app_short"] = RateLimitConfig(20, 1)
    /\ DEFAULT_LIMITS["app_long"] = RateLimitConfig(100, 120)

\* C8: a method header of one or more pairs sets the entry of exactly the
\* call's bucket to a pair of the smallest window, leaves every other entry
\* of METHOD_LIMITS as it was, and leaves both global buckets as they were
\* when the response has no application header.
C8_MethodHeaderSetsOnlyItsBucket ==
    (last.op = "update" /\ HasHeader(last.headers, "x-method-rate-limit")
        /\ PairsOf(last.headers, "x-method-rate-limit") # <<>>) =>
    /\ last.bucket \in DOMAIN METHOD_LIMITS
    /\ IsSmallestWindow(METHOD_LIMITS[last.bucket], PairsOf(last.headers, "x-method-rate-limit"))
    /\ OtherMethodsKept(last.bucket)
    /\ ~HasHeader(last.headers, "x-app-rate-limit") => DEFAULT_LIMITS = last.D

\* The header "30:10,500:5" has given the bucket 500 per 5 s
C8_Witness ==
    /\ last.op = "update"
    /\ HasHeader(last.headers, "x-method-rate-limit")
    /\ HeaderValue(last.headers, "x-method-rate-limit") = H_30_10_500_5
    /\ ~Present(last.headers, "x-app-rate-limit")
    /\ last.bucket \in DOMAIN last.M
    /\ last.M[last.bucket] # RateLimitConfig(500, 5)
    /\ METHOD_LIMITS[last.bucket] = RateLimitConfig(500, 5)

\* The headers without the legacy family
WithoutLegacy(headers) ==
    [k \in {n \in DOMAIN headers : HeaderLower(n) \notin {"x-rate-limit", "x-rate-limit-type"}}
        |-> headers[k]]

\* What an applied legacy header does: with the tag "application" the two
\* global buckets, with any other tag (or none) the call's bucket
LegacyEffect ==
    LET pairs == PairsOf(last.headers, "x-rate-limit")
    IN  IF Present(last.headers, "x-rate-limit-type")
           /\ HeaderValue(last.headers, "x-rate-limit-type") = S_application
        THEN /\ IsSmallestWindow(DEFAULT_LIMITS["app_short"], pairs)
             /\ IsLargestWindow(DEFAULT_LIMITS["app_long"], pairs)
             /\ METHOD_LIMITS = last.M
        ELSE /\ last.bucket \in DOMAIN METHOD_LIMITS
             /\ IsSmallestWindow(METHOD_LIMITS[last.bucket], pairs)
             /\ OtherMethodsKept(last.bucket)
             /\ DEFAULT_LIMITS = last.D

LegacyIgnored ==
    LET r == UpdateFromHeaders(last.D, last.M, last.bucket, WithoutLegacy(last.headers))
    IN  DEFAULT_LIMITS = r.D /\ METHOD_LIMITS = r.M

C10_LimitsStayPositive ==
    /\ \A b \in DOMAIN DEFAULT_LIMITS :
          DEFAULT_LIMITS[b].max_requests > 0 /\ DEFAULT_LIMITS[b].window_seconds > 0
    /\ \A b \in DOMAIN METHOD_LIMITS :
          METHOD_LIMITS[b].max_requests > 0 /\ METHOD_LIMITS[b].window_seconds > 0

----------------------------------------------------------------------------
(* SpecSeq: one caller making check_limit, check-then-record and            *)
(* set_retry_after calls on one bucket, one after the other, while the      *)
(* clock advances and upstream responses bring limit headers.               *)

\* Buckets the sequential caller is given
SeqBuckets == {"app_long", "account", "unknown"}

\* What the caller has seen of its bucket (history): n admissions recorded
\* since the window was last empty, the first of them at time first, the last
\* record at time lastRec, and whether a check since then was denied as full
NoRun == [n |-> 0, first |-> 0, lastRec |-> 0, deniedFull |-> FALSE]

InitSeq ==
    /\ InitStore
    /\ NoClients
    /\ NoSync
    /\ NoJobs
    /\ NoTasks
    /\ \E bucket \in EndpointBuckets, headers \in SmallHeaderCases :
          LET r == UpdateFromHeaders(DefaultLimits, MethodLimits, bucket, headers)
          IN  DEFAULT_LIMITS = r.D /\ METHOD_LIMITS = r.M
    /\ \E bucket \in SeqBuckets :
          last = [op |-> "none", bucket |-> bucket, run |-> NoRun,
                  cool |-> [at |-> 0, secs |-> 0]]

Held(bucket) == Len(redis[GetKey(bucket)])

\* The check's result as the caller sees it, with the bucket's history before it
Seen(op, r, run) ==
    [op |-> op, bucket |-> last.bucket, at |-> now, allowed |-> r.allowed, wait |-> r.wait,
     raised |-> r.raised, why |-> r.why, count |-> r.count,
     pre |-> last.run, held |-> Held(last.bucket), run |-> run, cool |-> last.cool]

Denied(r) == [last.run EXCEPT !.deniedFull = @ \/ (r.why = "full" /\ r.count >= 1)]

\* check_limit(bucket)
SeqCheck ==
    LET r == CheckLimit(last.bucket)
    IN  /\ redis' = r.redis
        /\ expireAt' = r.expireAt
        /\ last' = Seen("check", r, Denied(r))
        /\ UNCHANGED <<now, retry_after, DEFAULT_LIMITS, METHOD_LIMITS, task, hist, client, db, sync, jobvars>>

\* check_limit(bucket) and, when it admits a configured bucket,
\* _record_request(key, now, limit.window_seconds)
SeqAdmit ==
    LET bucket == last.bucket
        r == CheckLimit(bucket)
    IN  /\ Held(bucket) < MaxStore
        /\ IF r.allowed /\ HasLimit(bucket)
           THEN LET w == RecordRequest(r.redis, r.expireAt, GetKey(bucket), now,
                                       LimitOf(bucket).window_seconds)
                    run == [n |-> IF r.count = 0 THEN 1 ELSE last.run.n + 1,
                            first |-> IF r.count = 0 THEN now ELSE last.run.first,
                            lastRec |-> now, deniedFull |-> FALSE]
                IN  /\ redis' = w.redis
                    /\ expireAt' = w.expireAt
                    /\ last' = Seen("admit", r, run)
           ELSE /\ redis' = r.redis
                /\ expireAt' = r.expireAt
                /\ last' = Seen("admit", r, Denied(r))
        /\ UNCHANGED <<now, retry_after, DEFAULT_LIMITS, METHOD_LIMITS, task, hist, client, db, sync, jobvars>>

\* set_retry_after(seconds)
SetRetryAfter(seconds) ==
    /\ retry_after' = now + seconds
    /\ last' = [op |-> "set", bucket |-> last.bucket, run |-> last.run,
                cool |-> [at |-> now, secs |-> seconds]]
    /\ UNCHANGED <<now, DEFAULT_LIMITS, METHOD_LIMITS, redis, expireAt, task, hist, client, db, sync, jobvars>>

\* update_from_headers(bucket, headers) between two calls of the caller
SeqUpdate(bucket, headers) ==
    LET r == UpdateFromHeaders(DEFAULT_LIMITS, METHOD_LIMITS, bucket, headers)
    IN  /\ DEFAULT_LIMITS' = r.D
        /\ METHOD_LIMITS' = r.M
        /\ last' = [op |-> "update", bucket |-> last.bucket, run |-> last.run,
                    cool |-> last.cool]
        /\ UNCHANGED <<now, retry_after, redis, expireAt, task, hist, client, db, sync, jobvars>>

\* A second passes; Redis drops the keys whose expiry time has come
Tick ==
    /\ now < MaxTime
    /\ now' = now + 1
    /\ redis' = [k \in DOMAIN redis |->
                    IF k \in Expired(redis, expireAt, now + 1) THEN <<>> ELSE redis[k]]
    /\ expireAt' = [k \in DOMAIN redis |->
                    IF k \in Expired(redis, expireAt, now + 1) THEN 0 ELSE expireAt[k]]
    /\ UNCHANGED <<retry_after, DEFAULT_LIMITS, METHOD_LIMITS, task, hist, last, client, db, sync, jobvars>>

NextSeq ==
    \/ SeqCheck
    \/ SeqAdmit
    \/ \E seconds \in 0..MaxRetryAfter : SetRetryAfter(seconds)
    \/ \E headers \in SmallHeaderCases : SeqUpdate("account", headers)
    \/ Tick

SpecSeq == InitSeq /\ [][NextSeq]_vars

----------------------------------------------------------------------------
(* Properties of check_limit and set_retry_after, over SpecSeq *)

IsCheck == last.op \in {"check", "admit"}

\* The deadline of the latest set_retry_after call (0 + 0 before any)
Deadline == last.cool.at + last.cool.secs

\* The admissions recorded in the window that is running at the last check:
\* none when the sorted set was empty
InWindow == IF last.held = 0 THEN 0 ELSE last.pre.n

\* C2: a caller alone on a configured bucket (max_requests, window_seconds),
\* with no cooldown active, starting from an empty window: while the window
\* opened by the first recorded admission is running, a check after fewer than
\* max_requests recorded admissions admits, and the check after max_requests
\* of them denies, without raising, with wait > 0.
C2_WindowAdmitsMaxThenDenies ==
    (/\ IsCheck
     /\ HasLimit(last.bucket)
     /\ last.at >= Deadline
     /\ last.held = 0 \/ last.at < last.pre.first + LimitOf(last.bucket).window_seconds) =>
    LET limit == LimitOf(last.bucket)
    IN  /\ InWindow < limit.max_requests => last.allowed
        /\ InWindow >= limit.max_requests =>
              ~last.allowed /\ ~last.raised /\ last.wait > 0

\* C3: a bucket that denied a check as full and had nothing recorded since
\* admits a check made, with no cooldown active, once window_seconds have
\* passed since its last recorded entry: every entry has been evicted before
\* the count, which is 0.
C3_ExpiredWindowAdmitsAgain ==
    (/\ IsCheck
     /\ HasLimit(last.bucket)
     /\ last.at >= Deadline
     /\ last.pre.deniedFull
     /\ last.at >= last.pre.lastRec + LimitOf(last.bucket).window_seconds) =>
    /\ last.allowed
    /\ last.count = 0
    /\ last.op = "check" => redis[GetKey(last.bucket)] = <<>>

----------------------------------------------------------------------------
(* wait_if_needed, one step per await: each check_limit of a pass, each     *)
(* _record_request of _record_all_buckets, the sleep.                       *)

MAX_RETRIES == 5
BASE_BACKOFF_SECONDS == 1
MAX_BACKOFF_SECONDS == 60

RECURSIVE Pow2(_)
Pow2(n) == IF n = 0 THEN 1 ELSE 2 * Pow2(n - 1)

\* backoff = min(BASE_BACKOFF_SECONDS * (2**retries), MAX_BACKOFF_SECONDS)
Backoff(retries) == Min(BASE_BACKOFF_SECONDS * Pow2(retries), MAX_BACKOFF_SECONDS)

\* jitter = backoff * JITTER_FACTOR * random.random(), JITTER_FACTOR = 0.5 and
\* random() in [0, 1): the whole seconds below half the backoff
Jitters(backoff) == {j \in 0..MaxJitter : 2 * j < backoff}

\* Bucket names the callers hand to wait_if_needed
WaitBuckets == {"account", "app_short", "unknown"}

\* The bucket the check of this stage of _check_all_buckets is made on:
\* stage 1 the call's bucket, stages 2 and 3 the global buckets
CheckTarget(f) == IF f.stage = 1 THEN f.bucket ELSE AppBuckets[f.stage - 1]

\* A slip: the global buckets are not checked
NextToCheck_none(i, bucket) == 0

\* for app_bucket in ["app_short", "app_long"]: if app_bucket != bucket:
\* the index of the next global bucket to check, from index i on; 0 for none
NextToCheck(i, bucket) ==
    IF \E k \in i..Len(AppBuckets) : AppBuckets[k] # bucket
    THEN CHOOSE k \in i..Len(AppBuckets) :
            AppBuckets[k] # bucket /\ \A m \in i..(k - 1) : AppBuckets[m] = bucket
    ELSE 0

\* A slip: the bucket recorded already is recorded again
NextToRecord_all(i, recorded) == IF i <= Len(AppBuckets) THEN i ELSE 0

\* for app_bucket, app_limit in self.DEFAULT_LIMITS.items(): if app_bucket not
\* in recorded: the index of the next global bucket to record, from index i
\* on; 0 for none.  The keys of DEFAULT_LIMITS are app_short and app_long, in
\* this order, whatever update_from_headers has stored under them.
NextToRecord(i, recorded) ==
    IF \E k \in i..Len(AppBuckets) : AppBuckets[k] \notin recorded
    THEN CHOOSE k \in i..Len(AppBuckets) :
            AppBuckets[k] \notin recorded /\ \A m \in i..(k - 1) : AppBuckets[m] \in recorded
    ELSE 0

\* wait_if_needed(bucket) is called: retries = 0, the loop is entered
Call(c, bucket) ==
    /\ task[c].pc = "idle"
    /\ hist[c].calls < MaxCalls
    /\ task' = [task EXCEPT ![c] = [IdleFrame EXCEPT !.pc = "check", !.bucket = bucket]]
    /\ hist' = [hist EXCEPT ![c] = [NoHistory EXCEPT !.calls = hist[c].calls + 1]]
    /\ UNCHANGED <<now, retry_after, DEFAULT_LIMITS, METHOD_LIMITS, redis, expireAt, last, client, db, sync, jobvars>>

\* A slip: the backoff is added to the reported wait
SleepTime_sum(wait_seconds, backoff, jitter) == wait_seconds + backoff + jitter

\* sleep_time = max(wait_seconds, backoff + jitter)
SleepTime(wait_seconds, backoff, jitter) == Max(wait_seconds, backoff + jitter)

\* The wait _check_all_buckets returns when the check of this stage denies:
\* `return False, wait_seconds` for the call's bucket, and
\* `return False, max(wait_seconds, app_wait)`, wait_seconds being the 0.0 of
\* the call's bucket that admitted, for a global bucket
ReportedWait(f) ==
    LET r == CheckLimit(CheckTarget(f))
    IN  IF f.stage = 1 THEN r.wait ELSE Max(0, r.wait)

\* One check_limit of _check_all_buckets.  A denial ends the pass: the sleep
\* time is computed and asyncio.sleep begins.  The last admission ends the
\* pass with allowed = True.  A ZeroDivisionError leaves the call.
Check(c) ==
    LET f == task[c]
        target == CheckTarget(f)
        r == CheckLimit(target)
        \* return False, wait_seconds / return False, max(wait_seconds, app_wait)
        wait_seconds == ReportedWait(f)
        backoff == Backoff(f.retries)
        next == NextToCheck(f.stage, f.bucket)
        h == [hist[c] EXCEPT
                 !.passes = IF f.stage = 1 THEN @ + 1 ELSE @,
                 !.admitted = (IF f.stage = 1 THEN {} ELSE @)
                              \cup (IF r.allowed THEN {target} ELSE {})]
    IN  /\ f.pc = "check"
        /\ redis' = r.redis
        /\ expireAt' = r.expireAt
        /\ hist' = [hist EXCEPT ![c] = h]
        /\ \E jitter \in Jitters(backoff) :
              task' = [task EXCEPT ![c] =
                  IF r.raised THEN [f EXCEPT !.pc = "error"]
                  ELSE IF ~r.allowed
                  THEN [f EXCEPT !.pc = "sleep",
                                 !.wakeAt = now + SleepTime(wait_seconds, backoff, jitter)]
                  ELSE IF next # 0 THEN [f EXCEPT !.stage = next + 1]
                  ELSE [f EXCEPT !.pc = "record", !.stage = 1]]
        /\ UNCHANGED <<now, retry_after, DEFAULT_LIMITS, METHOD_LIMITS, last, client, db, sync, jobvars>>

\* One _record_request of _record_all_buckets.  The first step reads
\* now = time.time() and the bucket's limit; with no limit it goes straight on
\* to the first global bucket.
Record(c) ==
    LET f == task[c]
        first == f.stage = 1
        own == first /\ HasLimit(f.bucket)
        score == IF first THEN now ELSE f.recNow
        recorded == IF first THEN (IF own THEN {f.bucket} ELSE {}) ELSE f.recorded
        target == IF own THEN f.bucket
                  ELSE IF first THEN AppBuckets[NextToRecord(1, recorded)]
                  ELSE AppBuckets[f.stage - 1]
        ttl == IF own THEN LimitOf(f.bucket).window_seconds
               ELSE DEFAULT_LIMITS[target].window_seconds
        w == RecordRequest(redis, expireAt, GetKey(target), score, ttl)
        next == IF own THEN NextToRecord(1, recorded)
                ELSE IF first THEN NextToRecord(NextToRecord(1, recorded) + 1, recorded)
                ELSE NextToRecord(f.stage, recorded)
    IN  /\ f.pc = "record"
        /\ redis' = w.redis
        /\ expireAt' = w.expireAt
        /\ task' = [task EXCEPT ![c] =
              IF next = 0 THEN [f EXCEPT !.pc = "done", !.recNow = score, !.recorded = recorded]
              ELSE [f EXCEPT !.stage = next + 1, !.recNow = score, !.recorded = recorded]]
        /\ hist' = [hist EXCEPT ![c].inserted[target] = @ + 1]
        /\ UNCHANGED <<now, retry_after, DEFAULT_LIMITS, METHOD_LIMITS, last, client, db, sync, jobvars>>

\* asyncio.sleep(sleep_time) ends; retries += 1; the loop goes on, or is left
\* and RuntimeError raised
Wake(c) ==
    LET f == task[c]
    IN  /\ f.pc = "sleep"
        /\ now >= f.wakeAt
        /\ task' = [task EXCEPT ![c] =
              IF f.retries + 1 < MAX_RETRIES
              THEN [f EXCEPT !.pc = "check", !.stage = 1, !.retries = @ + 1]
              ELSE [f EXCEPT !.pc = "raised", !.retries = @ + 1]]
        /\ hist' = [hist EXCEPT ![c].sleeps = @ + 1]
        /\ UNCHANGED <<now, retry_after, DEFAULT_LIMITS, METHOD_LIMITS, redis, expireAt, last, client, db, sync, jobvars>>

\* The call has returned or raised; the caller is free for its next call
Return(c) ==
    /\ task[c].pc \in {"done", "raised", "error"}
    /\ task' = [task EXCEPT ![c] = IdleFrame]
    /\ hist' = [hist EXCEPT ![c] = [NoHistory EXCEPT !.calls = hist[c].calls]]
    /\ UNCHANGED <<now, retry_after, DEFAULT_LIMITS, METHOD_LIMITS, redis, expireAt, last, client, db, sync, jobvars>>

Callers == 1..NumCallers

InitTasks ==
    /\ task = [c \in Callers |-> IdleFrame]
    /\ hist = [c \in Callers |-> NoHistory]
    /\ last = [op |-> "none"]

CallerStep ==
    \/ \E c \in Callers, bucket \in WaitBuckets : Call(c, bucket)
    \/ \E c \in Callers : Check(c)
    \/ \E c \in Callers : Record(c)
    \/ \E c \in Callers : Wake(c)
    \/ \E c \in Callers : Return(c)

----------------------------------------------------------------------------
(* SpecRace: concurrent callers under tables that one upstream response has *)
(* left and that stay as they are, with no cooldown.                        *)

InitRace ==
    /\ InitStore
    /\ NoClients
    /\ NoSync
    /\ NoJobs
    /\ InitTasks
    /\ \E bucket \in EndpointBuckets, headers \in SmallHeaderCases :
          LET r == UpdateFromHeaders(DefaultLimits, MethodLimits, bucket, headers)
          IN  DEFAULT_LIMITS = r.D /\ METHOD_LIMITS = r.M

NextRace == CallerStep \/ Tick

SpecRace == InitRace /\ [][NextRace]_vars

----------------------------------------------------------------------------
(* Properties of wait_if_needed, over SpecRace *)

\* The entries of a bucket's sorted set with a timestamp in the span of
\* window_seconds that ends at t
InSpan(bucket, t) ==
    LET zset == redis[GetKey(bucket)]
    IN  {i \in 1..Len(zset) :
            zset[i] > t - LimitOf(bucket).window_seconds /\ zset[i] <= t}

\* C1: for every configured bucket, whatever the interleaving of the callers,
\* no span of window_seconds holds more than max_requests recorded requests.
C1_WindowNeverOverfilled ==
    \A bucket \in BucketNames : HasLimit(bucket) =>
        \A t \in 0..MaxTime :
            Cardinality(InSpan(bucket, t)) <= LimitOf(bucket).max_requests

Everywhere(f) == {"app_short", "app_long", f.bucket}

NothingInserted(c) == \A b \in BucketNames : hist[c].inserted[b] = 0

\* C5: a wait_if_needed call makes at most MAX_RETRIES check passes; it goes
\* on to record and return only after a pass in which the operation bucket and
\* both global buckets admitted; and it raises only after exactly 5 denied
\* passes and 5 sleeps, having recorded nothing.
C5_ReturnsAdmittedOrRaisesAfterFive ==
    \A c \in Callers :
        /\ hist[c].passes <= MAX_RETRIES
        /\ task[c].pc \in {"record", "done"} => Everywhere(task[c]) \subseteq hist[c].admitted
        /\ task[c].pc \in {"raised", "error"} =>
              /\ hist[c].passes = MAX_RETRIES
              /\ hist[c].sleeps = MAX_RETRIES
              /\ NothingInserted(c)

\* A call in which no pass has admitted everywhere has inserted nothing
DeniedInsertsNothing ==
    \A c \in Callers :
        task[c].pc \in {"check", "sleep", "raised", "error"} => NothingInserted(c)

\* C6 as stated: a call that returned has inserted exactly one entry into the
\* operation bucket and one into each of app_short and app_long (one, not two,
\* into an operation bucket that is a global bucket), and a denied pass has
\* inserted nothing.
C6_OneEntryInEveryBucket ==
    /\ DeniedInsertsNothing
    /\ \A c \in Callers : task[c].pc = "done" =>
          hist[c].inserted =
              [b \in BucketNames |-> IF b \in Everywhere(task[c]) THEN 1 ELSE 0]

\* C6, amended: a call that returned has inserted exactly one entry into each
\* of app_short and app_long, and into the operation bucket exactly one when
\* the bucket has a configured limit and none when it has not; a denied pass
\* has inserted nothing.
C6_OneEntryInEveryConfiguredBucket ==
    /\ DeniedInsertsNothing
    /\ \A c \in Callers : task[c].pc = "done" =>
          hist[c].inserted =
              [b \in BucketNames |->
                  IF b \in Everywhere(task[c]) /\ HasLimit(b) THEN 1 ELSE 0]

\* A call on the global bucket app_short has returned, with one entry inserted
\* there and one in app_long
C6_Witness ==
    \E c \in Callers :
        /\ task[c].pc = "done"
        /\ task[c].bucket = "app_short"
        /\ hist[c].inserted["app_short"] = 1
        /\ hist[c].inserted["app_long"] = 1

\* The step is the check_limit of caller c on its own bucket, a name that is
\* in neither table, made while no cooldown is active
ChecksUnknown(c) ==
    /\ task[c].pc = "check"
    /\ task[c].stage = 1
    /\ ~HasLimit(task[c].bucket)
    /\ ~InCooldown(now)
    /\ task'[c] # task[c]

\* C11: with no cooldown active, check_limit on a name in neither table admits
\* (the pass goes on to check app_short) and leaves the counter store as it
\* was, whatever the other buckets hold; a wait_if_needed call on such a name
\* records only after app_short and app_long have both admitted in the pass,
\* and has, when it returns, one entry recorded in each of them.
C11_UnknownBucketFailsOpen ==
    /\ [][\A c \in Callers : ChecksUnknown(c) =>
            /\ redis' = redis
            /\ expireAt' = expireAt
            /\ task'[c].pc = "check"
            /\ task'[c].stage = 2
            /\ hist'[c].admitted = {task[c].bucket}]_vars
    /\ [](\A c \in Callers : ~HasLimit(task[c].bucket) =>
            /\ task[c].pc \in {"record", "done"} =>
                  {"app_short", "app_long"} \subseteq hist[c].admitted
            /\ task[c].pc = "done" =>
                  /\ hist[c].inserted["app_short"] = 1
                  /\ hist[c].inserted["app_long"] = 1)

\* A call on a name in neither table was admitted by its own check while
\* app_short was full, and sleeps on the denial of app_short
C11_Witness ==
    \E c \in Callers :
        /\ ~HasLimit(task[c].bucket)
        /\ task[c].pc = "sleep"
        /\ hist[c].admitted = {task[c].bucket}
        /\ Len(redis[GetKey("app_short")]) >= DEFAULT_LIMITS["app_short"].max_requests

----------------------------------------------------------------------------
(* RiotApiClient._get_json: the rate-limited GET with its retry loop.       *)
(* The client's wait_if_needed runs in the caller frame task[c] of the      *)
(* limiter; client.get and the handling of its outcome are one step.        *)

CLIENT_MAX_RETRIES == 3
CLIENT_BASE_BACKOFF_SECONDS == 1

MaxClock == 8       \* the clock of a client run stops here

\* settings.riot_api_key values
ApiKeys == {"", "replace-me", "RGAPI-test-key"}

\* A slip: the placeholder key is taken for a key
MissingKey_emptyOnly(api_key) == api_key = ""

\* if not api_key or api_key == "replace-me"
MissingKey(api_key) == api_key = "" \/ api_key = "replace-me"

NoHeaders == << >>

\* What client.get can bring: a response (status, body text, headers) or, for
\* kind "neterr", an httpx.RequestError whose str() is body
Outcomes ==
    { [kind |-> "ok", status |-> 200, body |-> "json-1", headers |-> NoHeaders],
      [kind |-> "429", status |-> 429, body |-> "quota-1", headers |-> NoHeaders],
      [kind |-> "429", status |-> 429, body |-> "quota-2", headers |-> "Retry-After" :> <<"2">>],
      [kind |-> "429", status |-> 429, body |-> "quota-3",
       headers |-> "Retry-After" :> <<"s", "o", "o", "n">>],
      [kind |-> "5xx", status |-> 500, body |-> "error-1", headers |-> NoHeaders],
      [kind |-> "5xx", status |-> 503, body |-> "error-2",
       headers |-> "X-Method-Rate-Limit" :> H_1_2],
      [kind |-> "5xx", status |-> 502, body |-> "error-3",
       headers |-> "X-Method-Rate-Limit" :> H_0_1],
      [kind |-> "4xx", status |-> 404, body |-> "missing-1", headers |-> NoHeaders],
      [kind |-> "neterr", status |-> 0, body |-> "socket timeout", headers |-> NoHeaders] }

\* float(s) for the Retry-After values drawn here, which are whole seconds or
\* no number at all
FloatParses(s) == IntParses(s)

FloatValue(s) == IntValue(s)

\* _parse_retry_after: float(response.headers.get("Retry-After", "1")), 1.0 on ValueError
ParseRetryAfter(headers) ==
    LET value == IF "Retry-After" \in DOMAIN headers THEN headers["Retry-After"] ELSE <<"1">>
    IN  IF FloatParses(value) THEN FloatValue(value) ELSE 1

\* A slip: every failure status is retried
RetryableStatus_any(status) == status >= 400

\* exc.response.status_code >= 500
RetryableStatus(status) == status >= 500

\* RiotRequestError(message, status, body)
RiotRequestError(message, status, body) ==
    [message |-> message, status |-> status, body |-> body]

NoError == RiotRequestError("", 0, "")

\* body=f"Max retries ({self.MAX_RETRIES}) exceeded"
MaxRetriesBody(body) == "Max retries (3) exceeded"

\* A slip: the response of the first attempt is returned
ResponseJson_first(got, o) == IF got = << >> THEN o.body ELSE got[1].body

\* return response.json()
ResponseJson(got, o) == o.body

\* retries < self.MAX_RETRIES
BudgetLeft(retries) == retries < CLIENT_MAX_RETRIES

\* The frame of a client with no call at work, and the history of a call:
\* requests issued, sleeps of the retry loop, wait_if_needed calls and the
\* sleeps made inside them, the outcomes received, and for the last 429 the
\* set_retry_after call made
IdleClient ==
    [pc |-> "idle", bucket |-> "account", api_key |-> "", retries |-> 0, wakeAt |-> 0,
     payload |-> "", error |-> NoError, exception |-> "",
     requests |-> 0, sleeps |-> 0, waits |-> 0, limiterSleeps |-> 0, got |-> << >>,
     cooled |-> [at |-> 0, secs |-> 0]]

\* The raise that follows the loop
MaxRetriesExceeded(body) ==
    RiotRequestError("riot_api_max_retries_exceeded", 429, MaxRetriesBody(body))

Clients == Callers

\* A slip: the wait returns at once, with no check and no record
EnterWait_skip(c, bucket) ==
    /\ task' = [task EXCEPT ![c] = [IdleFrame EXCEPT !.pc = "done", !.bucket = bucket]]
    /\ hist' = [hist EXCEPT ![c] = NoHistory]

\* await self._rate_limiter.wait_if_needed(bucket), up to its first check
EnterWait(c, bucket) ==
    /\ task' = [task EXCEPT ![c] = [IdleFrame EXCEPT !.pc = "check", !.bucket = bucket]]
    /\ hist' = [hist EXCEPT ![c] = NoHistory]

\* _get_json(bucket, url) is called, with settings.riot_api_key = api_key
GetJson(c, bucket, api_key) ==
    /\ client[c].pc = "idle"
    /\ task[c].pc = "idle"
    /\ IF MissingKey(api_key)
       THEN /\ client' = [client EXCEPT ![c] =
                   [IdleClient EXCEPT !.pc = "raised", !.bucket = bucket, !.api_key = api_key,
                        !.error = RiotRequestError("missing_riot_api_key", 401, "")]]
            /\ UNCHANGED <<task, hist>>
       ELSE /\ client' = [client EXCEPT ![c] =
                   [IdleClient EXCEPT !.pc = "wait", !.bucket = bucket, !.api_key = api_key,
                                      !.waits = 1]]
            /\ EnterWait(c, bucket)
    /\ UNCHANGED <<now, retry_after, DEFAULT_LIMITS, METHOD_LIMITS, redis, expireAt, last, db, sync, jobvars>>

\* backoff = self.BASE_BACKOFF_SECONDS * (2**retries)
ClientBackoff(retries) == CLIENT_BASE_BACKOFF_SECONDS * Pow2(retries)

\* wait_if_needed has returned: response = await client.get(url, headers), then
\* update_from_headers and the branch the outcome takes, up to the return, the
\* raise or the call of asyncio.sleep
Get(c, o) ==
    LET f == client[c]
        seen == [f EXCEPT !.requests = @ + 1, !.got = Append(@, o),
                          !.limiterSleeps = @ + hist[c].sleeps]
        upd == IF o.kind = "neterr" THEN [D |-> DEFAULT_LIMITS, M |-> METHOD_LIMITS]
               ELSE UpdateFromHeaders(DEFAULT_LIMITS, METHOD_LIMITS, f.bucket, o.headers)
        secs == ParseRetryAfter(o.headers)
        backoff == ClientBackoff(f.retries)
        Sleep(seconds) == [seen EXCEPT !.pc = "sleep", !.retries = @ + 1, !.sleeps = @ + 1,
                                      !.wakeAt = now + seconds]
        Raise(error) == [seen EXCEPT !.pc = "raised", !.error = error]
    IN  /\ f.pc = "wait"
        /\ task[c].pc = "done"
        /\ task' = [task EXCEPT ![c] = IdleFrame]
        /\ hist' = [hist EXCEPT ![c] = NoHistory]
        /\ DEFAULT_LIMITS' = upd.D
        /\ METHOD_LIMITS' = upd.M
        /\ retry_after' = IF o.kind = "429" THEN now + secs ELSE retry_after
        /\ \E jitter \in Jitters(backoff) :
              client' = [client EXCEPT ![c] =
                  CASE o.kind = "ok" ->
                         [seen EXCEPT !.pc = "returned", !.payload = ResponseJson(f.got, o)]
                    [] o.kind = "429" ->
                         IF f.retries + 1 > CLIENT_MAX_RETRIES
                         THEN [Raise(MaxRetriesExceeded(o.body))
                                  EXCEPT !.retries = @ + 1,
                                         !.cooled = [at |-> now, secs |-> secs]]
                         ELSE [Sleep(secs) EXCEPT !.cooled = [at |-> now, secs |-> secs]]
                    [] o.kind = "neterr" ->
                         IF BudgetLeft(f.retries) THEN Sleep(backoff)
                         ELSE Raise(RiotRequestError("riot_api_failed", 502, o.body))
                    [] OTHER ->
                         IF RetryableStatus(o.status) /\ BudgetLeft(f.retries)
                         THEN Sleep(backoff + jitter)
                         ELSE Raise(RiotRequestError("riot_api_failed", o.status, o.body))]
        /\ UNCHANGED <<now, redis, expireAt, last, db, sync, jobvars>>

\* wait_if_needed has raised (RuntimeError at its retry ceiling, or the
\* ZeroDivisionError of check_limit): _get_json does not catch it
WaitFailed(c) ==
    /\ client[c].pc = "wait"
    /\ task[c].pc \in {"raised", "error"}
    /\ client' = [client EXCEPT ![c].pc = "crashed",
                                ![c].exception = IF task[c].pc = "raised" THEN "RuntimeError"
                                                 ELSE "ZeroDivisionError"]
    /\ task' = [task EXCEPT ![c] = IdleFrame]
    /\ hist' = [hist EXCEPT ![c] = NoHistory]
    /\ UNCHANGED <<now, retry_after, DEFAULT_LIMITS, METHOD_LIMITS, redis, expireAt, last, db, sync, jobvars>>

\* asyncio.sleep ends; continue: while retries <= self.MAX_RETRIES,
\* wait_if_needed is called again
EndSleep(c) ==
    /\ client[c].pc = "sleep"
    /\ now >= client[c].wakeAt
    /\ IF client[c].retries <= CLIENT_MAX_RETRIES
       THEN /\ client' = [client EXCEPT ![c].pc = "wait", ![c].waits = @ + 1]
            /\ EnterWait(c, client[c].bucket)
       ELSE /\ client' = [client EXCEPT ![c].pc = "raised",
                                        ![c].error = MaxRetriesExceeded("")]
            /\ UNCHANGED <<task, hist>>
    /\ UNCHANGED <<now, retry_after, DEFAULT_LIMITS, METHOD_LIMITS, redis, expireAt, last, db, sync, jobvars>>

\* Some task is in an asyncio.sleep that has not run out
Sleeping ==
    \/ \E c \in DOMAIN client : client[c].pc = "sleep" /\ client[c].wakeAt > now
    \/ \E c \in DOMAIN task : task[c].pc = "sleep" /\ task[c].wakeAt > now

\* A second passes while the tasks sleep; Redis drops the keys whose expiry
\* time has come
Elapse ==
    /\ Sleeping
    /\ now < MaxClock
    /\ now' = now + 1
    /\ redis' = [k \in DOMAIN redis |->
                    IF k \in Expired(redis, expireAt, now + 1) THEN <<>> ELSE redis[k]]
    /\ expireAt' = [k \in DOMAIN redis |->
                    IF k \in Expired(redis, expireAt, now + 1) THEN 0 ELSE expireAt[k]]
    /\ UNCHANGED <<retry_after, DEFAULT_LIMITS, METHOD_LIMITS, task, hist, last, client, db, sync, jobvars>>

----------------------------------------------------------------------------
(* SpecClient: one client call at a time through the limiter, whose tables  *)
(* are those of the construction or those an earlier response has left.     *)

ClientBuckets == {"account"}

InitClient ==
    /\ InitStore
    /\ InitTasks
    /\ client = [c \in Clients |-> IdleClient]
    /\ NoSync
    /\ NoJobs
    /\ \E headers \in SmallHeaderCases \cup {NoHeaders} :
          LET r == UpdateFromHeaders(DefaultLimits, MethodLimits, "account", headers)
          IN  DEFAULT_LIMITS = r.D /\ METHOD_LIMITS = r.M

NextClient ==
    \/ \E bucket \in ClientBuckets, api_key \in ApiKeys : GetJson(1, bucket, api_key)
    \/ Check(1)
    \/ Record(1)
    \/ Wake(1)
    \/ \E o \in Outcomes : Get(1, o)
    \/ WaitFailed(1)
    \/ EndSleep(1)
    \/ Elapse

SpecClient == InitClient /\ [][NextClient]_vars

----------------------------------------------------------------------------
(* Properties of RiotApiClient._get_json, over SpecClient *)

\* The kinds of the outcomes the call of client c has received, in order
Kinds(c) == [i \in 1..Len(client[c].got) |-> client[c].got[i].kind]

LastGot(c) == client[c].got[Len(client[c].got)]

Ended(c) == client[c].pc \in {"returned", "raised", "crashed"}

\* k outcomes of kind a, then the outcomes in rest
Repeated(a, k, rest) == [i \in 1..(k + Len(rest)) |-> IF i <= k THEN a ELSE rest[i - k]]

\* C12: whatever the outcomes, a client call issues at most MAX_RETRIES + 1
\* HTTP requests and makes at most MAX_RETRIES retries (quota-exceeded, server
\* error and network error counted together), and it ends with the payload
\* or with a RiotRequestError, with no other exception.
C12_BoundedRequestsStructuredEnd ==
    \A c \in Clients :
        /\ client[c].requests <= CLIENT_MAX_RETRIES + 1
        /\ client[c].sleeps <= CLIENT_MAX_RETRIES
        /\ client[c].pc # "crashed"

\* The frame of a call that has raised stays as it is
RaisedIsFinal ==
    [][\A c \in Clients : client[c].pc = "raised" =>
            client'[c] = client[c] /\ task'[c] = task[c]]_vars

\* C13: a call whose last outcome is a client-error status (below 500, not
\* 429) has raised RiotRequestError with that status and body in the step that
\* received it, with no sleep begun and no request issued after it, whatever
\* is left of the retry budget; and nothing follows the raise.
C13_ClientErrorFailsAtOnce ==
    /\ [](\A c \in Clients : (client[c].got # << >> /\ LastGot(c).kind = "4xx") =>
            /\ client[c].pc = "raised"
            /\ client[c].error =
                  RiotRequestError("riot_api_failed", LastGot(c).status, LastGot(c).body)
            /\ client[c].requests = Len(client[c].got)
            /\ client[c].sleeps = Len(client[c].got) - 1
            /\ client[c].waits = Len(client[c].got)
            /\ task[c].pc = "idle")
    /\ RaisedIsFinal

\* A 404 came on the second attempt, with two retries left, and the call raised
C13_Witness ==
    \E c \in Clients :
        /\ Kinds(c) = <<"5xx", "4xx">>
        /\ client[c].retries = 1
        /\ client[c].pc = "raised"
        /\ client[c].error.status = 404

\* The call received k server errors and then a success
ServerErrorsThenSuccess(c, k) == Kinds(c) = Repeated("5xx", k, <<"ok">>)

\* C14 as stated: after k server errors (1 <= k <= MAX_RETRIES) and a success
\* the call has issued k + 1 requests, has slept k times in all (the sleeps
\* inside wait_if_needed counted), and has returned the payload of the
\* successful response.
C14_ServerErrorsThenSuccess ==
    \A c \in Clients : \A k \in 1..CLIENT_MAX_RETRIES : ServerErrorsThenSuccess(c, k) =>
        /\ client[c].pc = "returned"
        /\ client[c].payload = LastGot(c).body
        /\ client[c].requests = k + 1
        /\ client[c].sleeps + client[c].limiterSleeps = k

\* C14, amended: after k server errors (1 <= k <= MAX_RETRIES) and a success
\* the call has issued k + 1 requests, its retry loop has slept k times, and it
\* has returned the payload of the successful response; the sleeps of
\* wait_if_needed, when the limiter denies, come on top.
C14_ServerErrorsThenSuccessRetrySleeps ==
    \A c \in Clients : \A k \in 1..CLIENT_MAX_RETRIES : ServerErrorsThenSuccess(c, k) =>
        /\ client[c].pc = "returned"
        /\ client[c].payload = LastGot(c).body
        /\ client[c].requests = k + 1
        /\ client[c].sleeps = k
        /\ client[c].waits = k + 1

\* Three server errors, then the payload on the last attempt the budget allows
C14_Witness ==
    \E c \in Clients :
        /\ ServerErrorsThenSuccess(c, CLIENT_MAX_RETRIES)
        /\ client[c].pc = "returned"
        /\ client[c].payload = "json-1"

\* C17: a call that raised after a 429 or a server error, its retry budget
\* spent, raised with the status and the body of that last response.
C17_ExhaustionCarriesLastResponse ==
    \A c \in Clients :
        (/\ client[c].pc = "raised"
         /\ client[c].got # << >>
         /\ LastGot(c).kind \in {"429", "5xx"}) =>
        /\ client[c].error.status = LastGot(c).status
        /\ client[c].error.body = LastGot(c).body

\* C18: a call made with an empty or placeholder credential has raised
\* RiotRequestError with status 401, with no wait_if_needed call made, no
\* request issued and no entry in any bucket.
C18_MissingKeyFailsFast ==
    \A c \in Clients : (client[c].pc # "idle" /\ client[c].api_key \in {"", "replace-me"}) =>
        /\ client[c].pc = "raised"
        /\ client[c].error = RiotRequestError("missing_riot_api_key", 401, "")
        /\ client[c].waits = 0
        /\ client[c].requests = 0
        /\ task[c].pc = "idle"
        /\ \A k \in Keys : redis[k] = << >>

\* The placeholder key was refused
C18_Witness ==
    \E c \in Clients :
        /\ client[c].api_key = "replace-me"
        /\ client[c].pc = "raised"
        /\ client[c].error.status = 401

----------------------------------------------------------------------------
(* SpecShared: a client call through a limiter that other tasks of the      *)
(* process use as well: their responses bring limit headers and 429s while  *)
(* the call is under way.                                                   *)

\* update_from_headers(bucket, headers), called for the response of another task
HeadersSeen(bucket, headers) ==
    LET r == UpdateFromHeaders(DEFAULT_LIMITS, METHOD_LIMITS, bucket, headers)
    IN  /\ DEFAULT_LIMITS' = r.D
        /\ METHOD_LIMITS' = r.M
        /\ UNCHANGED <<now, retry_after, redis, expireAt, task, hist, last, client, db, sync, jobvars>>

\* set_retry_after(seconds), called for the 429 of another task
CooldownSet(seconds) ==
    /\ retry_after' = now + seconds
    /\ UNCHANGED <<now, DEFAULT_LIMITS, METHOD_LIMITS, redis, expireAt, task, hist, last, client, db, sync, jobvars>>

\* The waits the 429s of other tasks ask for
SharedWaits == {0, 1}

\* The outcomes drawn in SpecShared: the failures that are retried without
\* limit headers of their own
SharedOutcomes == {o \in Outcomes : o.kind \in {"429", "neterr"}}

InitShared ==
    /\ InitStore
    /\ InitTables
    /\ InitTasks
    /\ client = [c \in Clients |-> IdleClient]
    /\ NoSync
    /\ NoJobs

NextShared ==
    \/ \E bucket \in ClientBuckets : GetJson(1, bucket, "RGAPI-test-key")
    \/ Check(1)
    \/ Record(1)
    \/ Wake(1)
    \/ \E o \in SharedOutcomes : Get(1, o)
    \/ WaitFailed(1)
    \/ EndSleep(1)
    \/ Elapse
    \/ HeadersSeen("account", "X-Method-Rate-Limit" :> H_0_1)
    \/ \E seconds \in SharedWaits : CooldownSet(seconds)

SpecShared == InitShared /\ [][NextShared]_vars

----------------------------------------------------------------------------
(* Properties of RiotApiClient._get_json, over SpecShared *)

\* Every attempt of the call, and there was one, failed with a network error,
\* and the call is over
OnlyNetworkErrors(c) ==
    /\ Ended(c)
    /\ client[c].got # << >>
    /\ \A i \in 1..Len(client[c].got) : client[c].got[i].kind = "neterr"

\* C15: a call all of whose attempts failed with a network error has issued
\* MAX_RETRIES + 1 requests, has slept MAX_RETRIES times, and has raised
\* RiotRequestError with status 502 and the text of the last network error.
C15_NetworkErrorsExhaustBudget ==
    \A c \in Clients : OnlyNetworkErrors(c) =>
        /\ client[c].pc = "raised"
        /\ client[c].error = RiotRequestError("riot_api_failed", 502, LastGot(c).body)
        /\ client[c].requests = CLIENT_MAX_RETRIES + 1
        /\ client[c].sleeps + client[c].limiterSleeps = CLIENT_MAX_RETRIES

\* The wait a 429 response asks for: its Retry-After, 1 second when the header
\* is missing ("quota-1") or is no number ("quota-3")
AskedWait(o) == IF o.body = "quota-2" THEN 2 ELSE 1

\* C16: a call whose last outcome is a 429 has set the cooldown to the time of
\* the response plus the wait the response asks for; when it then sleeps, it
\* sleeps that long from that time on, and until the sleep runs out the
\* cooldown is active, so that check_limit denies every caller.
C16_CooldownSetBeforeSleep ==
    \A c \in Clients : (client[c].got # << >> /\ LastGot(c).kind = "429") =>
        /\ client[c].cooled.secs = AskedWait(LastGot(c))
        /\ client[c].pc = "sleep" =>
              /\ client[c].wakeAt = client[c].cooled.at + client[c].cooled.secs
              /\ now < client[c].wakeAt => retry_after > now

----------------------------------------------------------------------------
(* upsert_matches_for_riot_account (match_sync.py) over the match and       *)
(* riot_account_match tables. A row carries the transaction that inserted   *)
(* it while that transaction is open (tx = the worker) and tx = 0 once it   *)
(* is committed. A statement sees the committed rows and the rows of its    *)
(* own transaction (READ COMMITTED).                                        *)

NumWorkers == 2     \* concurrent sync passes
MaxRuns == 2        \* upserts a worker makes one after the other
MaxIds == 2         \* longest match-id list

Workers == 1..NumWorkers
GameIds == {"NA1_1", "NA1_2"}
AccountIds == {"account-1", "account-2"}
MatchIdLists == UNION {[1..n -> GameIds] : n \in 0..MaxIds}

\* uuid4(): the token of the worker, the run and the thing the row stands for
Uuid4(w, run, key) == <<w, run, key>>

\* Match(game_id=match_id), with id from default_factory=uuid4
Match(id, game_id, tx) == [id |-> id, game_id |-> game_id, tx |-> tx]

\* RiotAccountMatch(riot_account_id=..., match_id=...)
RiotAccountMatch(id, riot_account_id, match_id, tx) ==
    [id |-> id, riot_account_id |-> riot_account_id, match_id |-> match_id, tx |-> tx]

\* The rows a statement of worker w sees
Visible(rows, w) == {r \in rows : r.tx \in {0, w}}

Committed(rows) == {r \in rows : r.tx = 0}

\* A slip: the index on game_id is not unique
SameGame_never(m, game_id) == FALSE

\* Column(String, unique=True): the key of the unique index on match.game_id
SameGame(m, game_id) == m.game_id = game_id

\* UniqueConstraint("riot_account_id", "match_id"): the key of uq_riot_account_match
SameLink(l, riot_account_id, match_id) ==
    l.riot_account_id = riot_account_id /\ l.match_id = match_id

\* An INSERT of worker w meets a row of the same key that w can see: it fails
\* with a unique violation (IntegrityError)
MatchTaken(w, game_id) == \E m \in Visible(db.matches, w) : SameGame(m, game_id)
LinkTaken(w, riot_account_id, match_id) ==
    \E l \in Visible(db.links, w) : SameLink(l, riot_account_id, match_id)

\* The open transactions that hold a row of the same key: the INSERT waits
\* until they end
MatchHolders(w, game_id) ==
    {m.tx : m \in {x \in db.matches \ Visible(db.matches, w) : SameGame(x, game_id)}}
LinkHolders(w, riot_account_id, match_id) ==
    {l.tx : l \in {x \in db.links \ Visible(db.links, w) :
                       SameLink(x, riot_account_id, match_id)}}

\* select(Match).where(Match.game_id.in_(match_ids)), as {m.game_id: m}: one
\* row for each game id found (any of them, were there several)
ExistingMatches(w, match_ids) ==
    LET found == {m \in Visible(db.matches, w) : \E i \in DOMAIN match_ids : m.game_id = match_ids[i]}
        keys == {m.game_id : m \in found}
    IN  [g \in keys |-> (CHOOSE m \in found : m.game_id = g).id]

\* The ids of the list that are not in existing_matches, each once, in the
\* order of their first place in the list
RECURSIVE Missing(_, _)
Missing(match_ids, known) ==
    IF match_ids = << >> THEN << >>
    ELSE IF Head(match_ids) \in known THEN Missing(Tail(match_ids), known)
    ELSE <<Head(match_ids)>> \o Missing(Tail(match_ids), known \cup {Head(match_ids)})

\* A slip: no link is taken to exist
AlreadyLinked_none(w, riot_account_id, all_match_uuids) == {}

\* select(RiotAccountMatch.match_id).where(riot_account_id == ..., match_id.in_(...))
AlreadyLinked(w, riot_account_id, all_match_uuids) ==
    {l.match_id : l \in {x \in Visible(db.links, w) :
                            /\ x.riot_account_id = riot_account_id
                            /\ x.match_id \in all_match_uuids}}

\* The frame of a worker with no upsert at work; prev keeps how its previous
\* upsert went (history)
NoUpsert == [riot_account_id |-> "", match_ids |-> << >>, pc |-> "idle", result |-> 0]

IdleSync ==
    [pc |-> "idle", run |-> 0, riot_account_id |-> "", match_ids |-> << >>,
     existing_matches |-> << >>, pending |-> << >>, staged |-> {}, created |-> 0,
     result |-> 0, error |-> "", commits |-> 0, prev |-> NoUpsert]

\* The orders in which a dict built from an unordered result can be walked
Orders(S) == {f \in [1..Cardinality(S) -> S] : \A i, j \in DOMAIN f : f[i] = f[j] => i = j}

Range(f) == {f[i] : i \in DOMAIN f}

\* upsert_matches_for_riot_account(session, riot_account_id, match_ids) is
\* called on a fresh session: `if not match_ids: return 0`
UpsertMatches(w, riot_account_id, match_ids) ==
    /\ sync[w].pc \in {"idle", "returned", "closed"}
    /\ sync[w].run < MaxRuns
    /\ sync' = [sync EXCEPT ![w] =
          [IdleSync EXCEPT
              !.pc = IF match_ids = << >> THEN "returned" ELSE "select",
              !.run = sync[w].run + 1,
              !.riot_account_id = riot_account_id,
              !.match_ids = match_ids,
              !.prev = [riot_account_id |-> sync[w].riot_account_id,
                        match_ids |-> sync[w].match_ids,
                        pc |-> sync[w].pc, result |-> sync[w].result]]]
    /\ UNCHANGED <<now, retry_after, DEFAULT_LIMITS, METHOD_LIMITS, redis, expireAt, task, hist,
                   last, client, db, jobvars>>

\* Lines 38-48: the batch fetch of the existing matches, and a Match for each
\* id of the list that was not found
SelectMatches(w) ==
    /\ sync[w].pc = "select"
    /\ LET f == sync[w]
           found == ExistingMatches(w, f.match_ids)
           missing == Missing(f.match_ids, DOMAIN found)
           created == [i \in DOMAIN missing |->
                          Match(Uuid4(w, f.run, missing[i]), missing[i], w)]
       IN  sync' = [sync EXCEPT ![w] =
              [f EXCEPT !.pc = "flush",
                        !.pending = created,
                        !.existing_matches =
                            [g \in DOMAIN found \cup Range(missing) |->
                                IF g \in DOMAIN found THEN found[g]
                                ELSE Uuid4(w, f.run, g)]]]
    /\ UNCHANGED <<now, retry_after, DEFAULT_LIMITS, METHOD_LIMITS, redis, expireAt, task, hist,
                   last, client, db, jobvars>>

\* Line 50, session.flush(): the INSERT of the next new Match. It raises
\* IntegrityError on a row of the same game_id, and waits while an open
\* transaction holds one.
FlushMatch(w) ==
    /\ sync[w].pc = "flush"
    /\ sync[w].pending # << >>
    /\ LET m == Head(sync[w].pending)
       IN  IF MatchTaken(w, m.game_id)
           THEN /\ sync' = [sync EXCEPT ![w].pc = "raised", ![w].error = "IntegrityError"]
                /\ db' = db
           ELSE /\ MatchHolders(w, m.game_id) = {}
                /\ db' = [db EXCEPT !.matches = @ \cup {m}]
                /\ sync' = [sync EXCEPT ![w].pending = Tail(@)]
    /\ UNCHANGED <<now, retry_after, DEFAULT_LIMITS, METHOD_LIMITS, redis, expireAt, task, hist,
                   last, client, jobvars>>

\* Lines 53-67: the batch fetch of the existing links, and a RiotAccountMatch
\* for each match of existing_matches that is not linked
SelectLinks(w) ==
    /\ sync[w].pc = "flush"
    /\ sync[w].pending = << >>
    /\ LET f == sync[w]
           all_match_uuids == Range(f.existing_matches)
           already_linked == AlreadyLinked(w, f.riot_account_id, all_match_uuids)
           unlinked == all_match_uuids \ already_linked
       IN  \E order \in Orders(unlinked) :
              sync' = [sync EXCEPT ![w] =
                 [f EXCEPT !.pc = "commit",
                           !.created = Cardinality(unlinked),
                           !.staged = [i \in DOMAIN order |->
                               RiotAccountMatch(Uuid4(w, f.run, order[i]),
                                                f.riot_account_id, order[i], w)]]]
    /\ UNCHANGED <<now, retry_after, DEFAULT_LIMITS, METHOD_LIMITS, redis, expireAt, task, hist,
                   last, client, db, jobvars>>

\* Line 69, session.commit(), first part: the INSERT of the next new link
CommitLink(w) ==
    /\ sync[w].pc = "commit"
    /\ sync[w].staged # << >>
    /\ LET l == Head(sync[w].staged)
       IN  IF LinkTaken(w, l.riot_account_id, l.match_id)
           THEN /\ sync' = [sync EXCEPT ![w].pc = "raised", ![w].error = "IntegrityError"]
                /\ db' = db
           ELSE /\ LinkHolders(w, l.riot_account_id, l.match_id) = {}
                /\ db' = [db EXCEPT !.links = @ \cup {l}]
                /\ sync' = [sync EXCEPT ![w].staged = Tail(@)]
    /\ UNCHANGED <<now, retry_after, DEFAULT_LIMITS, METHOD_LIMITS, redis, expireAt, task, hist,
                   last, client, jobvars>>

\* The rows of worker w's transaction become (tx = 0) the committed ones
CommitRows(rows, w) == {[r EXCEPT !.tx = IF r.tx = w THEN 0 ELSE r.tx] : r \in rows}

\* Line 69, session.commit(), second part, and `return created`
Commit(w) ==
    /\ sync[w].pc = "commit"
    /\ sync[w].staged = << >>
    /\ db' = [matches |-> CommitRows(db.matches, w), links |-> CommitRows(db.links, w)]
    /\ sync' = [sync EXCEPT ![w].pc = "returned", ![w].result = sync[w].created,
                            ![w].commits = @ + 1]
    /\ UNCHANGED <<now, retry_after, DEFAULT_LIMITS, METHOD_LIMITS, redis, expireAt, task, hist,
                   last, client, jobvars>>

\* The transactions worker w waits for with the INSERT it is at
WaitsFor(w) ==
    IF sync[w].pc = "flush" /\ sync[w].pending # << >>
          /\ ~MatchTaken(w, Head(sync[w].pending).game_id)
    THEN MatchHolders(w, Head(sync[w].pending).game_id)
    ELSE IF sync[w].pc = "commit" /\ sync[w].staged # << >>
          /\ ~LinkTaken(w, Head(sync[w].staged).riot_account_id, Head(sync[w].staged).match_id)
    THEN LinkHolders(w, Head(sync[w].staged).riot_account_id, Head(sync[w].staged).match_id)
    ELSE {}

\* Two transactions wait for each other: the database ends one of them, whose
\* flush or commit raises
DeadlockDetected(w) ==
    /\ \E v \in WaitsFor(w) : w \in WaitsFor(v)
    /\ sync' = [sync EXCEPT ![w].pc = "raised", ![w].error = "DeadlockDetected"]
    /\ UNCHANGED <<now, retry_after, DEFAULT_LIMITS, METHOD_LIMITS, redis, expireAt, task, hist,
                   last, client, db, jobvars>>

\* A slip: closing the session keeps what was flushed
Rollback_keep(w) ==
    /\ sync[w].pc = "raised"
    /\ db' = [matches |-> CommitRows(db.matches, w), links |-> CommitRows(db.links, w)]
    /\ sync' = [sync EXCEPT ![w].pc = "closed"]
    /\ UNCHANGED <<now, retry_after, DEFAULT_LIMITS, METHOD_LIMITS, redis, expireAt, task, hist,
                   last, client, jobvars>>

\* The exception leaves the caller's `async with` block: the session is closed
\* and its transaction rolled back
Rollback(w) ==
    /\ sync[w].pc = "raised"
    /\ db' = [matches |-> {m \in db.matches : m.tx # w},
              links |-> {l \in db.links : l.tx # w}]
    /\ sync' = [sync EXCEPT ![w].pc = "closed"]
    /\ UNCHANGED <<now, retry_after, DEFAULT_LIMITS, METHOD_LIMITS, redis, expireAt, task, hist,
                   last, client, jobvars>>

\* The limiter and the client are not at work
InitSyncOnly ==
    /\ InitStore
    /\ InitTables
    /\ NoTasks
    /\ NoClients
    /\ last = [op |-> "none"]

\* The tables a pass can find: empty, or with the shell of one match, that
\* match linked to an account or not
SeedMatch == Match(Uuid4(0, 0, "NA1_1"), "NA1_1", 0)
SeedLink == RiotAccountMatch(Uuid4(0, 0, SeedMatch.id), "account-1", SeedMatch.id, 0)
SeedTables ==
    { [matches |-> {}, links |-> {}],
      [matches |-> {SeedMatch}, links |-> {}],
      [matches |-> {SeedMatch}, links |-> {SeedLink}] }

----------------------------------------------------------------------------
(* SpecUpsert: one worker makes its upserts one after the other *)

InitUpsert ==
    /\ InitSyncOnly
    /\ NoJobs
    /\ db \in SeedTables
    /\ sync = [w \in Workers |-> IdleSync]

NextUpsert ==
    \/ \E riot_account_id \in AccountIds, match_ids \in MatchIdLists :
          UpsertMatches(1, riot_account_id, match_ids)
    \/ SelectMatches(1)
    \/ FlushMatch(1)
    \/ SelectLinks(1)
    \/ CommitLink(1)
    \/ Commit(1)

SpecUpsert == InitUpsert /\ [][NextUpsert]_vars

----------------------------------------------------------------------------
(* Properties of upsert_matches_for_riot_account, over SpecUpsert *)

UpsertEnded(w) == sync[w].pc \in {"returned", "raised", "closed"}

\* Worker w has ended an upsert made right after an upsert that returned, for
\* the same account and with the same list
SameAgain(w) ==
    /\ UpsertEnded(w)
    /\ sync[w].prev.pc = "returned"
    /\ sync[w].prev.riot_account_id = sync[w].riot_account_id
    /\ sync[w].prev.match_ids = sync[w].match_ids

MatchesOf(game_id) == {m \in Committed(db.matches) : m.game_id = game_id}

LinksOf(riot_account_id, match_id) ==
    {l \in Committed(db.links) : l.riot_account_id = riot_account_id /\ l.match_id = match_id}

\* C19: when an upsert is run a second time in sequence for the same account
\* with the same list (ids repeated in it or not), the second run returns 0,
\* and the committed tables hold exactly one match for each game id of the
\* list and exactly one link from the account to each of these matches.
C19_SecondUpsertAddsNothing ==
    \A w \in Workers : SameAgain(w) =>
        /\ sync[w].pc = "returned"
        /\ sync[w].result = 0
        /\ \A g \in Range(sync[w].match_ids) :
              /\ Cardinality(MatchesOf(g)) = 1
              /\ \A m \in MatchesOf(g) :
                    Cardinality(LinksOf(sync[w].riot_account_id, m.id)) = 1

\* A list that names a new game twice was upserted twice: one link the first
\* time, none the second
C19_Witness ==
    \E w \in Workers :
        /\ SameAgain(w)
        /\ sync[w].match_ids = <<"NA1_2", "NA1_2">>
        /\ sync[w].prev.result = 1
        /\ sync[w].result = 0
        /\ Cardinality(MatchesOf("NA1_2")) = 1

----------------------------------------------------------------------------
(* SpecSync: the workers make their upserts side by side *)

SyncRuns == 1       \* upserts each of the concurrent workers makes

InitSync ==
    /\ InitSyncOnly
    /\ NoJobs
    /\ db \in SeedTables
    /\ sync = [w \in Workers |-> IdleSync]

NextSync ==
    \/ \E w \in Workers, riot_account_id \in AccountIds, match_ids \in MatchIdLists :
          sync[w].run < SyncRuns /\ UpsertMatches(w, riot_account_id, match_ids)
    \/ \E w \in Workers : SelectMatches(w)
    \/ \E w \in Workers : FlushMatch(w)
    \/ \E w \in Workers : SelectLinks(w)
    \/ \E w \in Workers : CommitLink(w)
    \/ \E w \in Workers : Commit(w)
    \/ \E w \in Workers : DeadlockDetected(w)
    \/ \E w \in Workers : Rollback(w)

SpecSync == InitSync /\ [][NextSync]_vars

----------------------------------------------------------------------------
(* Properties of upsert_matches_for_riot_account, over SpecSync *)

\* C20: in every state the committed rows hold at most one match for a
\* game_id and at most one link for a pair of account and match.
C20_CommittedRowsUnique ==
    /\ \A m1, m2 \in Committed(db.matches) : m1.game_id = m2.game_id => m1 = m2
    /\ \A l1, l2 \in Committed(db.links) :
          (l1.riot_account_id = l2.riot_account_id /\ l1.match_id = l2.match_id) => l1 = l2

\* Two passes for one account raced to insert the same new game: one has
\* committed its row, the other's INSERT was refused
C20_Witness ==
    \E w, v \in Workers :
        /\ w # v
        /\ sync[w].riot_account_id = sync[v].riot_account_id
        /\ "NA1_2" \in Range(sync[w].match_ids) \cap Range(sync[v].match_ids)
        /\ sync[w].pc = "returned"
        /\ sync[v].error = "IntegrityError"
        /\ sync[v].existing_matches["NA1_2"] # sync[w].existing_matches["NA1_2"]
        /\ Cardinality(MatchesOf("NA1_2")) = 1

\* The INSERT of a Match of worker w's pass met a row of the same game_id
HitMatchViolation(w) == sync[w].error = "IntegrityError" /\ sync[w].pending # << >>

\* C21: a pass whose INSERT of a new Match met the row another pass inserted
\* for the same game_id does not end with the exception: it goes on (re-reads
\* the row, retries) and returns.
C21_InsertRaceIsRecovered ==
    \A w \in Workers : HitMatchViolation(w) => sync[w].pc \notin {"raised", "closed"}

\* The rows that carry an id made by the pass worker w is at, or has ended
RowsOfPass(w) ==
    {r \in db.matches \cup db.links : r.id[1] = w /\ r.id[2] = sync[w].run}

----------------------------------------------------------------------------
(* upsert_riot_account (riot_account_upsert.py) over the riot_account      *)
(* table. The table holds row versions: tx = 0 for a committed one, tx =   *)
(* the worker whose open transaction wrote it otherwise.                    *)

\* Python's None; a column that may be NULL holds << >> or <<value>>
None == << >>

\* dict.get(key)
DictGet(d, key) == IF key \in DOMAIN d THEN d[key] ELSE None

RiotIds == {<<"T", "#", "1">>, <<"G", "#", "1">>}
Puuids == {"puuid-1", "puuid-2"}
SummonerInfos ==
    { << >>,
      [name |-> <<"N">>, profileIconId |-> <<2>>, summonerLevel |-> <<20>>] }

\* str(summoner_info.get("name") or riot_id.split("#", 1)[0])
SummonerName(summoner_info, riot_id) ==
    IF DictGet(summoner_info, "name") # None /\ DictGet(summoner_info, "name") # << >>
    THEN DictGet(summoner_info, "name")
    ELSE SplitOn(riot_id, "#")[1]

\* RiotAccount(summoner_name=..., riot_id=..., puuid=..., profile_icon_id=..., summoner_level=...)
RiotAccount(id, riot_id, puuid, summoner_info, tx) ==
    [id |-> id, riot_id |-> riot_id, puuid |-> puuid,
     summoner_name |-> SummonerName(summoner_info, riot_id),
     profile_icon_id |-> DictGet(summoner_info, "profileIconId"),
     summoner_level |-> DictGet(summoner_info, "summonerLevel"),
     tx |-> tx]

\* The row versions a statement of worker w sees: its own, and the committed
\* ones of the rows it has not written
AccountsSeen(w) ==
    {r \in riot_account : r.tx = w}
        \cup {r \in riot_account : r.tx = 0 /\ \A x \in riot_account : x.tx = w => x.id # r.id}

\* unique=True on riot_id and on puuid: another row with one of the two keys
SameAccountKey(r, a) == r.id # a.id /\ (r.riot_id = a.riot_id \/ r.puuid = a.puuid)

\* The write of a by worker w meets a row of the same key that w sees: IntegrityError
AccountTaken(w, a) == \E r \in AccountsSeen(w) : SameAccountKey(r, a)

\* The open transactions whose end the write of a by worker w waits for: they
\* hold the row itself or a row of the same key
AccountHolders(w, a) ==
    {r.tx : r \in {x \in riot_account : x.tx \notin {0, w} /\ (x.id = a.id \/ SameAccountKey(x, a))}}

NoAccount == [id |-> None]

IdleUpsert ==
    [pc |-> "idle", run |-> 0, riot_id |-> << >>, puuid |-> "", summoner_info |-> << >>,
     account |-> NoAccount, created |-> FALSE, lookups |-> 0, flushes |-> 0,
     error |-> "", result |-> None]

\* upsert_riot_account(session, riot_id, puuid, summoner_info) is called
UpsertRiotAccount(w, riot_id, puuid, summoner_info) ==
    /\ upsert[w].pc \in {"idle", "committed", "closed"}
    /\ upsert[w].run < MaxRuns
    /\ upsert' = [upsert EXCEPT ![w] =
          [IdleUpsert EXCEPT !.pc = "lookup", !.run = upsert[w].run + 1,
                             !.riot_id = riot_id, !.puuid = puuid,
                             !.summoner_info = summoner_info]]
    /\ UNCHANGED <<now, retry_after, DEFAULT_LIMITS, METHOD_LIMITS, redis, expireAt, task, hist,
                   last, client, db, sync, riot_account, game_info, arq, enqueue, detail, ingest, svcvars>>

\* Lines 46-68: the lookup by puuid, then by riot_id, and the new or the
\* changed RiotAccount
LookupAccount(w) ==
    /\ upsert[w].pc = "lookup"
    /\ LET f == upsert[w]
           by_puuid == {r \in AccountsSeen(w) : r.puuid = f.puuid}
           by_riot_id == {r \in AccountsSeen(w) : r.riot_id = f.riot_id}
           found == IF by_puuid # {} THEN by_puuid ELSE by_riot_id
       IN  upsert' = [upsert EXCEPT ![w] =
              [f EXCEPT
                  !.pc = "flush",
                  !.lookups = IF by_puuid # {} THEN 1 ELSE 2,
                  !.created = (found = {}),
                  !.account =
                      IF found = {}
                      THEN RiotAccount(Uuid4(w, f.run, f.puuid), f.riot_id, f.puuid,
                                       f.summoner_info, w)
                      ELSE RiotAccount((CHOOSE r \in found : TRUE).id, f.riot_id, f.puuid,
                                       f.summoner_info, w)]]
    /\ UNCHANGED <<now, retry_after, DEFAULT_LIMITS, METHOD_LIMITS, redis, expireAt, task, hist,
                   last, client, db, sync, riot_account, game_info, arq, enqueue, detail, ingest, svcvars>>

\* Line 70, session.flush(): the INSERT or the UPDATE of the account, and
\* `return account`. A row of the same riot_id or puuid makes it raise
\* IntegrityError; it waits while an open transaction holds one.
FlushAccount(w) ==
    /\ upsert[w].pc = "flush"
    /\ LET a == upsert[w].account
       IN  IF AccountTaken(w, a)
           THEN /\ upsert' = [upsert EXCEPT ![w].pc = "raised", ![w].flushes = @ + 1,
                                            ![w].error = "IntegrityError"]
                /\ riot_account' = riot_account
           ELSE /\ AccountHolders(w, a) = {}
                /\ riot_account' = {r \in riot_account : ~(r.id = a.id /\ r.tx = w)} \cup {a}
                /\ upsert' = [upsert EXCEPT ![w].pc = "returned", ![w].flushes = @ + 1,
                                            ![w].result = a.id]
    /\ UNCHANGED <<now, retry_after, DEFAULT_LIMITS, METHOD_LIMITS, redis, expireAt, task, hist,
                   last, client, db, sync, game_info, arq, enqueue, detail, ingest, svcvars>>

\* The caller's session.commit(): the versions of worker w replace the
\* committed ones of the same rows
CommitAccount(w) ==
    /\ upsert[w].pc = "returned"
    /\ riot_account' =
          {[r EXCEPT !.tx = 0] : r \in {x \in riot_account : x.tx = w}}
              \cup {r \in riot_account :
                       r.tx # w /\ ~(r.tx = 0 /\ \E x \in riot_account : x.tx = w /\ x.id = r.id)}
    /\ upsert' = [upsert EXCEPT ![w].pc = "committed"]
    /\ UNCHANGED <<now, retry_after, DEFAULT_LIMITS, METHOD_LIMITS, redis, expireAt, task, hist,
                   last, client, db, sync, game_info, arq, enqueue, detail, ingest, svcvars>>

\* The exception leaves the caller: its session is closed, the transaction
\* rolled back
RollbackAccount(w) ==
    /\ upsert[w].pc = "raised"
    /\ riot_account' = {r \in riot_account : r.tx # w}
    /\ upsert' = [upsert EXCEPT ![w].pc = "closed"]
    /\ UNCHANGED <<now, retry_after, DEFAULT_LIMITS, METHOD_LIMITS, redis, expireAt, task, hist,
                   last, client, db, sync, game_info, arq, enqueue, detail, ingest, svcvars>>

----------------------------------------------------------------------------
(* SpecAccount: the workers upsert accounts side by side *)

SeedAccount == RiotAccount(Uuid4(0, 0, "puuid-1"), <<"T", "#", "1">>, "puuid-1", << >>, 0)

InitAccount ==
    /\ InitSyncOnly
    /\ NoServices
    /\ NoSync
    /\ NoDetails
    /\ NoIngest
    /\ riot_account \in {{}, {SeedAccount}}
    /\ upsert = [w \in Workers |-> IdleUpsert]

NextAccount ==
    \/ \E w \in Workers, riot_id \in RiotIds, puuid \in Puuids, summoner_info \in SummonerInfos :
          upsert[w].run < SyncRuns /\ UpsertRiotAccount(w, riot_id, puuid, summoner_info)
    \/ \E w \in Workers : LookupAccount(w)
    \/ \E w \in Workers : FlushAccount(w)
    \/ \E w \in Workers : CommitAccount(w)
    \/ \E w \in Workers : RollbackAccount(w)

SpecAccount == InitAccount /\ [][NextAccount]_vars

\* C22: an upsert that found no row by puuid and none by riot_id, and whose
\* INSERT was refused because another caller had inserted the account, does
\* not end with the exception: it re-reads the row, applies the summoner
\* fields, flushes a second time and returns that row.
C22_InsertRaceReturnsExistingRow ==
    \A w \in Workers :
        (upsert[w].created /\ upsert[w].error = "IntegrityError") =>
            upsert[w].pc \notin {"raised", "closed"}

----------------------------------------------------------------------------
(* enqueue_missing_detail_jobs (enqueue_match_details.py) over the match   *)
(* table, the game_info column and the ARQ queue.                           *)

BATCH_SIZE == 5
NumDetailIds == 12  \* matches the table can hold in the detail model
NumPaths == 2       \* concurrent callers of enqueue_missing_detail_jobs

\* "NA1_<n>"
DetailId(n) == <<"NA1", n>>

\* The game ids of the detail model, in the order in which a scan of the
\* match table returns their rows
DetailIds == [n \in 1..NumDetailIds |-> DetailId(n - 1)]

\* The place of a row in the scan of the table
ScanPlace(game_id) == game_id[2]

\* JSON null, which a JSONB column can hold in place of SQL NULL
JsonNull == <<"null">>

\* The game_info column of match row m: None for SQL NULL
GameInfo(m) == IF m.id \in DOMAIN game_info THEN game_info[m.id] ELSE None

\* A slip: only SQL NULL counts as missing
LacksDetails_nullOnly(m) == GameInfo(m) = None

\* or_(Match.game_info.is_(None), cast(Match.game_info, String) == "null")
LacksDetails(m) == GameInfo(m) = None \/ GameInfo(m) = JsonNull

\* The rows in S, in scan order
RECURSIVE Scan(_)
Scan(S) ==
    IF S = {} THEN << >>
    ELSE LET m == CHOOSE x \in S : \A y \in S : ScanPlace(x.game_id) <= ScanPlace(y.game_id)
         IN  <<m>> \o Scan(S \ {m})

\* select(Match.game_id).where(Match.game_id.in_(match_ids), or_(...)), and
\* missing_details = [row[0] for row in result.fetchall()]
MissingDetails(match_ids) ==
    LET rows == {m \in Committed(db.matches) :
                    m.game_id \in Range(match_ids) /\ LacksDetails(m)}
        found == Scan(rows)
    IN  [i \in DOMAIN found |-> found[i].game_id]

\* A slip: the slice is one short
Batch_short(missing_details, i) ==
    SubSeq(missing_details, i + 1, Min(i + BATCH_SIZE - 1, Len(missing_details)))

\* missing_details[i : i + BATCH_SIZE], i counted from 0
Batch(missing_details, i) ==
    SubSeq(missing_details, i + 1, Min(i + BATCH_SIZE, Len(missing_details)))

\* f"match-details:{batch[0]}..{batch[-1]}:{len(batch)}"
JobId(batch) == <<"match-details", batch[1], batch[Len(batch)], Len(batch)>>

\* The keys ARQ knows: of the jobs queued or running, and of the results kept
KnownJobIds == {arq.queued[i].job_id : i \in DOMAIN arq.queued} \cup arq.done

\* A slip: the queue takes every job
EnqueueJob_always(function, args, job_id) ==
    [arq EXCEPT !.queued = Append(@, [function |-> function, args |-> args, job_id |-> job_id])]

\* pool.enqueue_job(function, args, _job_id=job_id): a key ARQ knows is skipped
EnqueueJob(function, args, job_id) ==
    IF job_id \in KnownJobIds THEN arq
    ELSE [arq EXCEPT !.queued =
             Append(@, [function |-> function, args |-> args, job_id |-> job_id])]

Paths == 1..NumPaths

\* The frame of a caller; calls keeps the enqueue_job calls made (history)
IdleEnqueue ==
    [pc |-> "idle", match_ids |-> << >>, missing_details |-> << >>, i |-> 0,
     enqueued |-> 0, calls |-> << >>, selects |-> 0, result |-> 0]

\* enqueue_missing_detail_jobs(match_ids, pool=...) is called:
\* `if not match_ids: return 0`
EnqueueMissingDetailJobs(c, match_ids) ==
    /\ enqueue[c].pc = "idle"
    /\ enqueue' = [enqueue EXCEPT ![c] =
          [IdleEnqueue EXCEPT !.pc = IF match_ids = << >> THEN "returned" ELSE "select",
                              !.match_ids = match_ids]]
    /\ UNCHANGED <<now, retry_after, DEFAULT_LIMITS, METHOD_LIMITS, redis, expireAt, task, hist,
                   last, client, db, sync, riot_account, upsert, game_info, arq, detail, ingest, svcvars>>

\* Lines 51-68: the query for the rows without game_info;
\* `if not missing_details: return 0`
SelectMissing(c) ==
    /\ enqueue[c].pc = "select"
    /\ LET missing_details == MissingDetails(enqueue[c].match_ids)
       IN  enqueue' = [enqueue EXCEPT
              ![c].pc = IF missing_details = << >> THEN "returned" ELSE "batch",
              ![c].selects = @ + 1,
              ![c].missing_details = missing_details]
    /\ UNCHANGED <<now, retry_after, DEFAULT_LIMITS, METHOD_LIMITS, redis, expireAt, task, hist,
                   last, client, db, sync, riot_account, upsert, game_info, arq, detail, ingest, svcvars>>

\* Lines 74-78, one turn of the loop, and `return enqueued` after the last
EnqueueBatch(c) ==
    /\ enqueue[c].pc = "batch"
    /\ LET f == enqueue[c]
           batch == Batch(f.missing_details, f.i)
           job_id == JobId(batch)
           more == f.i + BATCH_SIZE < Len(f.missing_details)
       IN  /\ arq' = EnqueueJob("fetch_match_details_job", batch, job_id)
           /\ enqueue' = [enqueue EXCEPT ![c] =
                 [f EXCEPT !.pc = IF more THEN "batch" ELSE "returned",
                           !.i = f.i + BATCH_SIZE,
                           !.enqueued = f.enqueued + Len(batch),
                           !.calls = Append(f.calls, [args |-> batch, job_id |-> job_id]),
                           !.result = IF more THEN 0 ELSE f.enqueued + Len(batch)]]
    /\ UNCHANGED <<now, retry_after, DEFAULT_LIMITS, METHOD_LIMITS, redis, expireAt, task, hist,
                   last, client, db, sync, riot_account, upsert, game_info, detail, ingest, svcvars>>

----------------------------------------------------------------------------
(* SpecEnqueue: two paths call enqueue_missing_detail_jobs side by side;   *)
(* no job is processed meanwhile.                                           *)

Reverse(s) == [i \in DOMAIN s |-> s[Len(s) + 1 - i]]

\* The lists handed in: stretches of the known ids from the first or from the
\* fourth on, the whole list backwards, a list that repeats an id, and two
\* lists of three that differ in the middle
MatchIdInputs ==
    {SubSeq(DetailIds, i, j) : i \in {1, 4}, j \in 0..NumDetailIds}
        \cup {Reverse(DetailIds), <<DetailId(0), DetailId(0)>>,
              <<DetailId(6), DetailId(7), DetailId(9)>>,
              <<DetailId(6), DetailId(8), DetailId(9)>>}

SeedRow(n) == Match(Uuid4(0, 0, DetailId(n)), DetailId(n), 0)

\* The tables a call can find: every match without details; or the last id
\* without a row, one match with its details and one with JSON null
SeedDetails ==
    { [matches |-> {SeedRow(n) : n \in 0..(NumDetailIds - 1)}, info |-> << >>],
      [matches |-> {SeedRow(n) : n \in 0..(NumDetailIds - 2)},
       info |-> (SeedRow(2).id :> <<"details-2">>) @@ (SeedRow(5).id :> JsonNull)] }

InitEnqueue ==
    /\ InitSyncOnly
    /\ NoServices
    /\ NoAccounts
    /\ NoIngest
    /\ sync = << >>
    /\ detail = << >>
    /\ arq = [queued |-> << >>, done |-> {}]
    /\ enqueue = [c \in Paths |-> IdleEnqueue]
    /\ \E t \in SeedDetails :
          /\ db = [matches |-> t.matches, links |-> {}]
          /\ game_info = t.info

NextEnqueue ==
    \/ \E c \in Paths, match_ids \in MatchIdInputs : EnqueueMissingDetailJobs(c, match_ids)
    \/ \E c \in Paths : SelectMissing(c)
    \/ \E c \in Paths : EnqueueBatch(c)

SpecEnqueue == InitEnqueue /\ [][NextEnqueue]_vars

----------------------------------------------------------------------------
(* Properties of enqueue_missing_detail_jobs, over SpecEnqueue *)

RECURSIVE Concat(_)
Concat(ss) == IF ss = << >> THEN << >> ELSE Head(ss) \o Concat(Tail(ss))

\* The batches a call has handed to enqueue_job, in order
Batches(c) == [k \in DOMAIN enqueue[c].calls |-> enqueue[c].calls[k].args]

JobIds(c) == [k \in DOMAIN enqueue[c].calls |-> enqueue[c].calls[k].job_id]

\* C24: a call that found n ids without details has handed ceil(n / 5) jobs to
\* the queue; every batch but the last holds 5 ids, the last holds 1 to 5, and
\* the batches put end to end are the list of the ids found.
C24_BatchesOfFive ==
    \A c \in Paths : enqueue[c].pc = "returned" =>
        LET n == Len(enqueue[c].missing_details)
            b == Batches(c)
        IN  /\ Len(b) = (n + 4) \div 5
            /\ \A k \in DOMAIN b : IF k < Len(b) THEN Len(b[k]) = 5 ELSE Len(b[k]) \in 1..5
            /\ \A k \in DOMAIN b : enqueue[c].calls[k].job_id \in
                  {arq.queued[i].job_id : i \in DOMAIN arq.queued}
            /\ Concat(b) = enqueue[c].missing_details

\* Twelve ids without details went out as batches of 5, 5 and 2
C24_Witness ==
    \E c \in Paths :
        /\ enqueue[c].pc = "returned"
        /\ Len(enqueue[c].missing_details) = 12
        /\ [k \in DOMAIN Batches(c) |-> Len(Batches(c)[k])] = <<5, 5, 2>>

C26_NoIdInTwoJobs ==
    \A i, j \in DOMAIN arq.queued :
        i # j => Range(arq.queued[i].args) \cap Range(arq.queued[j].args) = {}

\* The given ids whose row has no details: no game_info, or JSON null
WithoutDetails(match_ids) ==
    {g \in Range(match_ids) :
        \E m \in Committed(db.matches) :
            m.game_id = g /\ (m.id \notin DOMAIN game_info \/ game_info[m.id] = <<"null">>)}

\* C27: a call hands to the queue only ids whose match row exists and has no
\* details; it returns the number of given ids without details, and when
\* there is none (the empty list included) it has made no call to the queue.
C27_OnlyMissingAreSubmitted ==
    \A c \in Paths :
        /\ Range(Concat(Batches(c))) \subseteq WithoutDetails(enqueue[c].match_ids)
        /\ enqueue[c].pc = "returned" =>
              /\ enqueue[c].result = Cardinality(WithoutDetails(enqueue[c].match_ids))
              /\ WithoutDetails(enqueue[c].match_ids) = {} => enqueue[c].calls = << >>
              /\ enqueue[c].match_ids = << >> => enqueue[c].selects = 0

\* The whole list was handed in where one id has no row, one match has its
\* details and one holds JSON null: ten were submitted
C27_Witness ==
    \E c \in Paths :
        /\ enqueue[c].pc = "returned"
        /\ enqueue[c].match_ids = DetailIds
        /\ game_info # << >>
        /\ enqueue[c].result = 10
        /\ DetailId(5) \in Range(Concat(Batches(c)))
        /\ DetailId(2) \notin Range(Concat(Batches(c)))
        /\ DetailId(11) \notin Range(Concat(Batches(c)))

----------------------------------------------------------------------------
(* fetch_match_details_job (match_ingestion.py) and                         *)
(* backfill_match_details_inline (riot_sync.py): the writers of game_info.  *)

\* How client.fetch_match_by_id(match_id) can end: with the payload, with the
\* client's RiotRequestError, or with the limiter's RuntimeError, which
\* _get_json lets through
DetailOutcomes ==
    { [kind |-> "returned", payload |-> <<"details">>, message |-> ""],
      [kind |-> "raised", payload |-> None, message |-> "riot_api_failed"],
      [kind |-> "crashed", payload |-> None, message |-> "RuntimeError"] }

IdleDetail ==
    [pc |-> "idle", fn |-> "", job_id |-> None, match_ids |-> << >>, i |-> 0, fetched |-> 0,
     errors |-> << >>, staged |-> << >>, got |-> << >>, commits |-> 0, rewrites |-> 0,
     result |-> None, exception |-> ""]

\* The committed match row of a game id, if there is one
RowsOf(game_id) == {m \in Committed(db.matches) : m.game_id = game_id}

\* The queue forgets a job that has ended and keeps its result
JobEnded(job_id) ==
    [queued |-> SelectSeq(arq.queued, LAMBDA j : j.job_id # job_id),
     done |-> arq.done \cup {job_id}]

\* A worker takes a queued job and calls fetch_match_details_job(ctx, match_ids);
\* a job another worker runs can be handed out again
FetchMatchDetailsJob(w) ==
    /\ detail[w].pc = "idle"
    /\ \E k \in DOMAIN arq.queued :
          detail' = [detail EXCEPT ![w] =
             [IdleDetail EXCEPT !.pc = "fetch", !.fn = "job",
                                !.job_id = arq.queued[k].job_id,
                                !.match_ids = arq.queued[k].args]]
    /\ UNCHANGED <<now, retry_after, DEFAULT_LIMITS, METHOD_LIMITS, redis, expireAt, task, hist,
                   last, client, db, sync, riot_account, upsert, game_info, arq, enqueue, ingest, svcvars>>

\* not m.game_info
Falsy(info) == info = None \/ info = JsonNull

\* backfill_match_details_inline(session, matches) is called with the rows
\* of match_ids: `missing = [m for m in matches if not m.game_info]`
BackfillMatchDetailsInline(w, match_ids) ==
    /\ detail[w].pc = "idle"
    /\ LET missing == SelectSeq(match_ids,
                                LAMBDA g : \E m \in RowsOf(g) : Falsy(GameInfo(m)))
       IN  detail' = [detail EXCEPT ![w] =
              [IdleDetail EXCEPT !.pc = IF missing = << >> THEN "returned" ELSE "fetch",
                                 !.fn = "inline", !.match_ids = missing,
                                 !.result = <<0>>]]
    /\ UNCHANGED <<now, retry_after, DEFAULT_LIMITS, METHOD_LIMITS, redis, expireAt, task, hist,
                   last, client, db, sync, riot_account, upsert, game_info, arq, enqueue, ingest, svcvars>>

\* One turn of the loop (match_ingestion.py lines 189-242, riot_sync.py lines
\* 216-232) for the next id, the fetch ending as o. The job catches
\* RiotRequestError only; the inline backfill catches every Exception.
FetchDetail(w, o) ==
    /\ detail[w].pc = "fetch"
    /\ LET f == detail[w]
           match_id == f.match_ids[f.i + 1]
           last_one == f.i + 1 = Len(f.match_ids)
           rows == RowsOf(match_id)
           stepped == [f EXCEPT !.i = f.i + 1, !.got = Append(f.got, o.kind),
                                !.pc = IF last_one THEN "commit" ELSE "fetch"]
       IN  IF o.kind = "returned"
           THEN /\ detail' = [detail EXCEPT ![w] =
                      IF rows = {} THEN stepped
                      ELSE [stepped EXCEPT
                               !.fetched = f.fetched + 1,
                               !.staged = ((CHOOSE m \in rows : TRUE).id :> o.payload) @@ f.staged]]
                /\ arq' = arq
           ELSE IF o.kind = "raised" \/ f.fn = "inline"
           THEN /\ detail' = [detail EXCEPT ![w] =
                      IF f.fn = "inline" THEN stepped
                      ELSE [stepped EXCEPT
                               !.errors = Append(f.errors,
                                                 [match_id |-> match_id, error |-> o.message])]]
                /\ arq' = arq
           ELSE /\ detail' = [detail EXCEPT ![w] =
                      [f EXCEPT !.pc = "failed", !.got = Append(f.got, o.kind),
                                !.staged = << >>, !.exception = o.message]]
                /\ arq' = JobEnded(f.job_id)
    /\ UNCHANGED <<now, retry_after, DEFAULT_LIMITS, METHOD_LIMITS, redis, expireAt, task, hist,
                   last, client, db, sync, riot_account, upsert, game_info, enqueue, ingest, svcvars>>

\* {"status": ..., "fetched": ..., "errors": ...}
DetailResult(fetched, errors) ==
    [status |-> IF errors = << >> THEN "ok" ELSE "partial", fetched |-> fetched,
     errors |-> errors]

\* A slip: the commit is issued whatever was updated
PendingCommit_always(f) == TRUE

\* pending_commit (`fetched` inline): a row was updated
PendingCommit(f) == f.staged # << >>

\* `if pending_commit: await session.commit()` (`if fetched:` inline), and the
\* return; rewrites counts the rows written that had their details (history)
CommitDetails(w) ==
    /\ detail[w].pc = "commit"
    /\ LET f == detail[w]
           had == {id \in DOMAIN f.staged : id \in DOMAIN game_info /\ ~Falsy(game_info[id])}
       IN  /\ game_info' = f.staged @@ game_info
           /\ detail' = [detail EXCEPT ![w] =
                 [f EXCEPT !.pc = "returned",
                           !.commits = IF PendingCommit(f) THEN 1 ELSE 0,
                           !.rewrites = Cardinality(had),
                           !.staged = << >>,
                           !.result = IF f.fn = "job" THEN DetailResult(f.fetched, f.errors)
                                      ELSE <<f.fetched>>]]
           /\ arq' = IF f.fn = "job" THEN JobEnded(f.job_id) ELSE arq
    /\ UNCHANGED <<now, retry_after, DEFAULT_LIMITS, METHOD_LIMITS, redis, expireAt, task, hist,
                   last, client, db, sync, riot_account, upsert, enqueue, ingest, svcvars>>

----------------------------------------------------------------------------
(* SpecDetail: two workers run the queued detail jobs, and a request        *)
(* handler backfills inline.                                                *)

DetailJob(ids) == [function |-> "fetch_match_details_job", args |-> ids, job_id |-> JobId(ids)]

\* The queue at the start: a batch of five, and a batch of two that shares an
\* id with it
SeedQueue ==
    << DetailJob([n \in 1..BATCH_SIZE |-> DetailId(n - 1)]),
       DetailJob(<<DetailId(4), DetailId(11)>>) >>

\* The tables at the start: no match has its details; in the second the last
\* id has no row and one match holds JSON null
DetailTables ==
    { [matches |-> {SeedRow(n) : n \in 0..(NumDetailIds - 1)}, info |-> << >>],
      [matches |-> {SeedRow(n) : n \in 0..(NumDetailIds - 2)},
       info |-> (SeedRow(5).id :> JsonNull)] }

\* The lists of the handler
BackfillInputs == {<<DetailId(0)>>, <<DetailId(5), DetailId(2)>>}

InitDetail ==
    /\ InitSyncOnly
    /\ NoServices
    /\ NoAccounts
    /\ NoIngest
    /\ sync = << >>
    /\ enqueue = << >>
    /\ arq = [queued |-> SeedQueue, done |-> {}]
    /\ detail = [w \in Workers |-> IdleDetail]
    /\ \E t \in DetailTables :
          /\ db = [matches |-> t.matches, links |-> {}]
          /\ game_info = t.info

NextDetail ==
    \/ \E w \in Workers : FetchMatchDetailsJob(w)
    \/ \E match_ids \in BackfillInputs : BackfillMatchDetailsInline(2, match_ids)
    \/ \E w \in Workers, o \in DetailOutcomes : FetchDetail(w, o)
    \/ \E w \in Workers : CommitDetails(w)

SpecDetail == InitDetail /\ [][NextDetail]_vars

----------------------------------------------------------------------------
(* Properties of the writers of game_info, over SpecDetail *)

\* The places of the batch whose fetch ended as kind
PlacesOf(w, kind) == {i \in DOMAIN detail[w].got : detail[w].got[i] = kind}

\* C28: a run of fetch_match_details_job in which the fetch of some ids
\* failed, by the client's error or by the limiter's, ends with a result:
\* every id fetched that has a match row has its payload committed, fetched
\* counts these rows, errors has one entry for each failed id, and status is
\* "partial" when an id failed and "ok" otherwise.
C28_FailuresAreCollected ==
    \A w \in Workers : detail[w].fn = "job" =>
        /\ detail[w].pc # "failed"
        /\ detail[w].pc = "returned" =>
              LET f == detail[w]
                  failed == f.got = << >> \/ PlacesOf(w, "returned") # DOMAIN f.got
                  updated == {i \in PlacesOf(w, "returned") : RowsOf(f.match_ids[i]) # {}}
              IN  /\ f.result.fetched = Cardinality(updated)
                  /\ \A i \in updated : \A m \in RowsOf(f.match_ids[i]) :
                        ~Falsy(GameInfo(m))
                  /\ Len(f.result.errors) = Cardinality(DOMAIN f.got \ PlacesOf(w, "returned"))
                  /\ \A i \in DOMAIN f.got \ PlacesOf(w, "returned") :
                        Cardinality({k \in DOMAIN f.result.errors :
                                        f.result.errors[k].match_id = f.match_ids[i]}) = 1
                  /\ f.result.status = IF failed THEN "partial" ELSE "ok"

\* C29: no commit of a detail job or of the inline backfill writes the
\* game_info of a row that has its details.
C29_DetailsWrittenOnce ==
    \A w \in Workers : detail[w].rewrites = 0

----------------------------------------------------------------------------
(* The ingestion job: fetch_riot_account_matches_job looks its account up,  *)
(* fetches the list of match ids, upserts them and enqueues detail jobs.    *)

\* The strings UUID() accepts, and the arguments a job can carry
ValidUuids == AccountIds \cup {"account-9"}
JobAccountIds == ValidUuids \cup {"not-a-uuid"}

\* get_riot_account_by_id(session, account_uuid): the accounts with a row
AccountFound(riot_account_id) == riot_account_id \in AccountIds

\* How client.fetch_match_ids_by_puuid can end: with a list, with the client's
\* RiotRequestError, or with the limiter's RuntimeError
ListOutcomes ==
    {[kind |-> "returned", match_ids |-> l] : l \in MatchIdLists}
      \cup {[kind |-> "raised", match_ids |-> << >>],
            [kind |-> "crashed", match_ids |-> << >>]}

\* The frame of a job; list keeps how the list fetch ended (history)
IdleIngest ==
    [pc |-> "idle", riot_account_id |-> "", has_redis |-> FALSE, match_ids |-> << >>,
     list |-> "", new_links |-> 0, result |-> None, exception |-> ""]

\* Lines 56-76: UUID(riot_account_id) and the lookup of the account
FetchRiotAccountMatchesJob(w, riot_account_id, has_redis) ==
    /\ ingest[w].pc = "idle"
    /\ ingest' = [ingest EXCEPT ![w] =
          IF riot_account_id \notin ValidUuids
          THEN [IdleIngest EXCEPT !.pc = "returned", !.riot_account_id = riot_account_id,
                   !.result = [riot_account_id |-> riot_account_id, status |-> "error",
                               error |-> "invalid_uuid"]]
          ELSE IF ~AccountFound(riot_account_id)
          THEN [IdleIngest EXCEPT !.pc = "returned", !.riot_account_id = riot_account_id,
                   !.result = [riot_account_id |-> riot_account_id, status |-> "error",
                               error |-> "account_not_found"]]
          ELSE [IdleIngest EXCEPT !.pc = "list", !.riot_account_id = riot_account_id,
                                  !.has_redis = has_redis]]
    /\ UNCHANGED <<now, retry_after, DEFAULT_LIMITS, METHOD_LIMITS, redis, expireAt, task, hist,
                   last, client, db, sync, riot_account, upsert, game_info, arq, enqueue, detail, svcvars>>

\* Lines 78-90 and 117-135: the list fetch; `if not match_ids: return`, and
\* `except RiotRequestError: ... return {"status": "error", ...}`
FetchMatchIds(w, o) ==
    /\ ingest[w].pc = "list"
    /\ LET f == ingest[w]
       IN  ingest' = [ingest EXCEPT ![w] =
              CASE o.kind = "returned" /\ o.match_ids = << >> ->
                      [f EXCEPT !.pc = "returned", !.list = "returned",
                                !.result = [riot_account_id |-> f.riot_account_id,
                                            status |-> "ok", new_matches |-> 0]]
                [] o.kind = "returned" /\ o.match_ids # << >> ->
                      [f EXCEPT !.pc = "upsert", !.list = "returned",
                                !.match_ids = o.match_ids]
                [] o.kind = "raised" ->
                      [f EXCEPT !.pc = "returned", !.list = "raised",
                                !.result = [riot_account_id |-> f.riot_account_id,
                                            status |-> "error", error |-> "riot_api_error",
                                            details |-> "riot_api_failed"]]
                [] OTHER ->
                      [f EXCEPT !.pc = "raised", !.list = "crashed",
                                !.exception = "RuntimeError"]]
    /\ UNCHANGED <<now, retry_after, DEFAULT_LIMITS, METHOD_LIMITS, redis, expireAt, task, hist,
                   last, client, db, sync, riot_account, upsert, game_info, arq, enqueue, detail, svcvars>>

\* Line 92: upsert_matches_for_riot_account(session, account.id, match_ids)
\* is called
UpsertCall(w) ==
    /\ ingest[w].pc = "upsert"
    /\ sync[w].pc = "idle"
    /\ UpsertMatches(w, ingest[w].riot_account_id, ingest[w].match_ids)

\* Line 92: the upsert returned new_links
UpsertReturned(w) ==
    /\ ingest[w].pc = "upsert"
    /\ sync[w].pc = "returned"
    /\ ingest' = [ingest EXCEPT ![w].pc = "enqueue", ![w].new_links = sync[w].result]
    /\ UNCHANGED <<now, retry_after, DEFAULT_LIMITS, METHOD_LIMITS, redis, expireAt, task, hist,
                   last, client, db, sync, riot_account, upsert, game_info, arq, enqueue, detail, svcvars>>

\* The upsert raised: no handler of the job takes a database error, which
\* leaves the job once the session is closed
UpsertRaised(w) ==
    /\ ingest[w].pc = "upsert"
    /\ sync[w].pc = "closed"
    /\ ingest' = [ingest EXCEPT ![w].pc = "raised", ![w].exception = sync[w].error]
    /\ UNCHANGED <<now, retry_after, DEFAULT_LIMITS, METHOD_LIMITS, redis, expireAt, task, hist,
                   last, client, db, sync, riot_account, upsert, game_info, arq, enqueue, detail, svcvars>>

\* The queue after enqueue_job was called for each batch of missing_details
\* from offset i on
RECURSIVE EnqueueBatches(_, _, _)
EnqueueBatches(q, missing_details, i) ==
    IF i >= Len(missing_details) THEN q
    ELSE LET batch == Batch(missing_details, i)
             known == {q.queued[k].job_id : k \in DOMAIN q.queued} \cup q.done
             job == [function |-> "fetch_match_details_job", args |-> batch,
                     job_id |-> JobId(batch)]
         IN  EnqueueBatches(IF job.job_id \in known THEN q
                            ELSE [q EXCEPT !.queued = Append(@, job)],
                            missing_details, i + BATCH_SIZE)

\* The game ids of match_ids whose committed row is without details
IdsWithoutDetails(match_ids) ==
    {m.game_id : m \in {r \in Committed(db.matches) :
                           r.game_id \in Range(match_ids) /\ LacksDetails(r)}}

\* Lines 104-115 and _enqueue_detail_jobs: without a pool in ctx nothing is
\* enqueued; else the ids without details, in the order the query returns
\* them, are enqueued in batches; and the job returns its result
EnqueueDetailJobs(w) ==
    /\ ingest[w].pc = "enqueue"
    /\ LET f == ingest[w]
       IN  /\ IF f.has_redis
              THEN \E missing_details \in Orders(IdsWithoutDetails(f.match_ids)) :
                      arq' = EnqueueBatches(arq, missing_details, 0)
              ELSE arq' = arq
           /\ ingest' = [ingest EXCEPT ![w] =
                 [f EXCEPT !.pc = "returned",
                           !.result = [riot_account_id |-> f.riot_account_id,
                                       status |-> "ok", fetched |-> Len(f.match_ids),
                                       new_matches |-> f.new_links]]]
    /\ UNCHANGED <<now, retry_after, DEFAULT_LIMITS, METHOD_LIMITS, redis, expireAt, task, hist,
                   last, client, db, sync, riot_account, upsert, game_info, enqueue, detail, svcvars>>

----------------------------------------------------------------------------
(* SpecIngest: the workers run ingestion jobs side by side *)

InitIngest ==
    /\ InitSyncOnly
    /\ NoServices
    /\ NoAccounts
    /\ game_info = << >>
    /\ arq = [queued |-> << >>, done |-> {}]
    /\ enqueue = << >>
    /\ detail = << >>
    /\ db \in SeedTables
    /\ sync = [w \in Workers |-> IdleSync]
    /\ ingest = [w \in Workers |-> IdleIngest]

NextIngest ==
    \/ \E w \in Workers, riot_account_id \in JobAccountIds, has_redis \in BOOLEAN :
          FetchRiotAccountMatchesJob(w, riot_account_id, has_redis)
    \/ \E w \in Workers, o \in ListOutcomes : FetchMatchIds(w, o)
    \/ \E w \in Workers : UpsertCall(w)
    \/ \E w \in Workers : SelectMatches(w)
    \/ \E w \in Workers : FlushMatch(w)
    \/ \E w \in Workers : SelectLinks(w)
    \/ \E w \in Workers : CommitLink(w)
    \/ \E w \in Workers : Commit(w)
    \/ \E w \in Workers : DeadlockDetected(w)
    \/ \E w \in Workers : Rollback(w)
    \/ \E w \in Workers : UpsertReturned(w)
    \/ \E w \in Workers : UpsertRaised(w)
    \/ \E w \in Workers : EnqueueDetailJobs(w)

SpecIngest == InitIngest /\ [][NextIngest]_vars

----------------------------------------------------------------------------
(* Properties of fetch_riot_account_matches_job, over SpecIngest *)

\* The pass of the job's upsert failed at the database
PassFailed(w) == ingest[w].list = "returned" /\ sync[w].error # ""

\* C30: a job whose list fetch raised RiotRequestError, or whose upsert
\* failed at the database, does not return a result.
C30_FailuresLeaveTheJob ==
    \A w \in Workers :
        (ingest[w].list = "raised" \/ PassFailed(w)) => ingest[w].pc # "returned"

----------------------------------------------------------------------------
(* The scheduler: sync_all_riot_accounts_matches lists the active accounts  *)
(* and enqueues an ingestion job for each.                                  *)

\* The accounts list_all_active_riot_accounts can return
ScheduledAccounts == AccountIds \cup {"account-3"}
ActiveAccountLists == UNION {Orders(S) : S \in SUBSET ScheduledAccounts}

\* f"sync_matches_{account.id}_{int(time.time())}"
SyncJobId(riot_account_id, t) == <<"sync_matches", riot_account_id, t>>

\* The frame of a run; attempts keeps the enqueue_job calls made (history)
IdleSched ==
    [pc |-> "idle", run |-> 0, has_redis |-> FALSE, accounts |-> << >>, i |-> 0,
     enqueued |-> 0, attempts |-> << >>, result |-> None]

\* Lines 83-87
SchedResult(accounts, enqueued) ==
    [status |-> "ok", total_accounts |-> Len(accounts), accounts_queued |-> enqueued]

\* Lines 34-51: ctx.get("redis"), the list of the accounts, and the early
\* returns
SyncAllRiotAccountsMatches(has_redis, accounts) ==
    /\ sched.pc \in {"idle", "returned"}
    /\ sched.run < MaxRuns
    /\ sched' =
          IF ~has_redis
          THEN [IdleSched EXCEPT !.pc = "returned", !.run = sched.run + 1,
                                 !.result = [status |-> "error", error |-> "no_redis_context"]]
          ELSE IF accounts = << >>
          THEN [IdleSched EXCEPT !.pc = "returned", !.run = sched.run + 1, !.has_redis = TRUE,
                                 !.result = [status |-> "ok", accounts_queued |-> 0]]
          ELSE [IdleSched EXCEPT !.pc = "loop", !.run = sched.run + 1, !.has_redis = TRUE,
                                 !.accounts = accounts]
    /\ UNCHANGED <<now, retry_after, DEFAULT_LIMITS, METHOD_LIMITS, redis, expireAt, task, hist,
                   last, client, db, sync, riot_account, upsert, game_info, arq, enqueue, detail,
                   ingest, pool>>

\* A slip: the first exception ends the loop
EnqueueAccount_stop(raised) ==
    /\ sched.pc = "loop"
    /\ LET f == sched
           account == f.accounts[f.i + 1]
           job_id == SyncJobId(account, now)
           enqueued == IF raised THEN f.enqueued ELSE f.enqueued + 1
           last_one == raised \/ f.i + 1 = Len(f.accounts)
       IN  /\ arq' = IF raised THEN arq
                     ELSE EnqueueJob("fetch_riot_account_matches_job", <<account>>, job_id)
           /\ sched' = [f EXCEPT
                 !.i = f.i + 1,
                 !.enqueued = enqueued,
                 !.attempts = Append(@, [riot_account_id |-> account, job_id |-> job_id,
                                         raised |-> raised]),
                 !.pc = IF last_one THEN "returned" ELSE "loop",
                 !.result = IF last_one THEN SchedResult(f.accounts, enqueued) ELSE None]
    /\ UNCHANGED <<now, retry_after, DEFAULT_LIMITS, METHOD_LIMITS, redis, expireAt, task, hist,
                   last, client, db, sync, riot_account, upsert, game_info, enqueue, detail,
                   ingest, pool>>

\* Lines 52-87: one pass of the loop, redis.enqueue_job raising or not, and
\* after the last account the return
EnqueueAccount(raised) ==
    /\ sched.pc = "loop"
    /\ LET f == sched
           account == f.accounts[f.i + 1]
           job_id == SyncJobId(account, now)
           enqueued == IF raised THEN f.enqueued ELSE f.enqueued + 1
           last_one == f.i + 1 = Len(f.accounts)
       IN  /\ arq' = IF raised THEN arq
                     ELSE EnqueueJob("fetch_riot_account_matches_job", <<account>>, job_id)
           /\ sched' = [f EXCEPT
                 !.i = f.i + 1,
                 !.enqueued = enqueued,
                 !.attempts = Append(@, [riot_account_id |-> account, job_id |-> job_id,
                                         raised |-> raised]),
                 !.pc = IF last_one THEN "returned" ELSE "loop",
                 !.result = IF last_one THEN SchedResult(f.accounts, enqueued) ELSE None]
    /\ UNCHANGED <<now, retry_after, DEFAULT_LIMITS, METHOD_LIMITS, redis, expireAt, task, hist,
                   last, client, db, sync, riot_account, upsert, game_info, enqueue, detail,
                   ingest, pool>>

----------------------------------------------------------------------------
(* SpecSched: the cron runs of the scheduler, as time passes *)

InitSched ==
    /\ InitSyncOnly
    /\ NoSync
    /\ NoAccounts
    /\ NoDetails
    /\ NoIngest
    /\ pool = << >>
    /\ sched = IdleSched

NextSched ==
    \/ \E has_redis \in BOOLEAN, accounts \in ActiveAccountLists :
          SyncAllRiotAccountsMatches(has_redis, accounts)
    \/ \E raised \in BOOLEAN : EnqueueAccount(raised)
    \/ Tick

SpecSched == InitSched /\ [][NextSched]_vars

----------------------------------------------------------------------------
(* Properties of sync_all_riot_accounts_matches, over SpecSched *)

\* The run listed its accounts and has returned
SchedEnded == sched.pc = "returned" /\ sched.has_redis

\* One enqueue_job call was made for each account, in order, under a job key
OneAttemptEach ==
    /\ Len(sched.attempts) = Len(sched.accounts)
    /\ \A k \in DOMAIN sched.attempts :
          /\ sched.attempts[k].riot_account_id = sched.accounts[k]
          /\ sched.attempts[k].job_id[2] = sched.accounts[k]

\* The number of enqueue_job calls that did not raise
NotRaised == Cardinality({k \in DOMAIN sched.attempts : ~sched.attempts[k].raised})

\* C31, as stated: for N active accounts the run makes one enqueue attempt
\* per account, whether or not earlier ones raised, and its result reports
\* total = N and queued = the number of attempts that did not raise.
C31_EveryAccountAttempted ==
    SchedEnded =>
        /\ OneAttemptEach
        /\ "total_accounts" \in DOMAIN sched.result
        /\ sched.result.total_accounts = Len(sched.accounts)
        /\ sched.result.accounts_queued = NotRaised

\* C31, amended: the same for N >= 1; with no active account the result is
\* {"status": "ok", "accounts_queued": 0}, without a total.
C31_EveryAccountAttemptedOrNone ==
    SchedEnded =>
        /\ OneAttemptEach
        /\ sched.result.status = "ok"
        /\ sched.result.accounts_queued = NotRaised
        /\ IF sched.accounts = << >>
           THEN DOMAIN sched.result = {"status", "accounts_queued"}
           ELSE sched.result.total_accounts = Len(sched.accounts)

\* A run of three accounts in which the second enqueue raised
C31_Witness ==
    /\ SchedEnded
    /\ Len(sched.accounts) = 3
    /\ sched.attempts[2].raised
    /\ ~sched.attempts[3].raised
    /\ sched.result.accounts_queued = 2

----------------------------------------------------------------------------
(* The shared ARQ pool: get_arq_pool and close_arq_pool around the module's *)
(* _arq_pool_task. The callers are coroutines of one event loop: a caller   *)
(* runs from one await that suspends to the next without interleaving, and  *)
(* the await of a task that has finished does not suspend.                  *)

NumPoolCallers == 3 \* coroutines that call get_arq_pool or close_arq_pool
MaxPoolCalls == 2   \* calls each of them makes
MaxPoolTasks == 3   \* creation tasks over a run

PoolCallers == 1..NumPoolCallers

\* The frame of a caller; stale keeps whether the pool it was handed was
\* being closed, or closed, at the return (history)
IdlePoolCall ==
    [pc |-> "idle", op |-> "", task |-> 0, result |-> None, calls |-> 0, waited |-> FALSE,
     stale |-> FALSE]

\* _arq_pool_task (None, or <<t>> for task t), the creation tasks made, each
\* "pending", "done" (its pool is pool t) or "failed", the pools on which
\* aclose() has begun and has ended, and the callers' frames
NoPool ==
    [task |-> None, tasks |-> << >>, closing |-> {}, closed |-> {},
     call |-> [c \in PoolCallers |-> IdlePoolCall]]

\* A slip: a task that has not finished counts as none
NoPoolTask_unfinished == pool.task = None \/ pool.tasks[pool.task[1]] # "done"

\* `if _arq_pool_task is None`
NoPoolTask == pool.task = None

\* `if _arq_pool_task is task: _arq_pool_task = None`
ClearedIfSame(ref, t) == IF ref = <<t>> THEN None ELSE ref

\* Caller c, whose frame f awaits task t that has finished, goes on to its
\* next await or to its end: get_arq_pool lines 37-43, close_arq_pool lines
\* 52-59
AfterAwait(p, c, f, t) ==
    IF p.tasks[t] = "failed"
    THEN [p EXCEPT !.task = ClearedIfSame(p.task, t),
                   !.call[c] = [f EXCEPT !.pc = IF f.op = "get" THEN "raised" ELSE "returned",
                                         !.task = t]]
    ELSE IF f.op = "get"
    THEN [p EXCEPT !.call[c] = [f EXCEPT !.pc = "returned", !.task = t, !.result = <<t>>,
                                         !.stale = t \in p.closing \cup p.closed]]
    ELSE [p EXCEPT !.closing = @ \cup {t},
                   !.call[c] = [f EXCEPT !.pc = "aclose", !.task = t]]

\* The frame of the next call of caller c
NewPoolCall(c, op) ==
    [IdlePoolCall EXCEPT !.op = op, !.calls = pool.call[c].calls + 1]

\* get_arq_pool(), lines 32-38: the task is made when there is none, and
\* awaited
GetArqPool(c) ==
    /\ pool.call[c].pc \in {"idle", "returned", "raised"}
    /\ pool.call[c].calls < MaxPoolCalls
    /\ NoPoolTask => Len(pool.tasks) < MaxPoolTasks
    /\ LET p == IF NoPoolTask
                THEN [pool EXCEPT !.tasks = Append(@, "pending"),
                                  !.task = <<Len(pool.tasks) + 1>>]
                ELSE pool
           t == p.task[1]
           f == NewPoolCall(c, "get")
       IN  pool' = IF p.tasks[t] = "pending"
                   THEN [p EXCEPT !.call[c] = [f EXCEPT !.pc = "awaiting", !.task = t,
                                                        !.waited = TRUE]]
                   ELSE AfterAwait(p, c, f, t)
    /\ UNCHANGED <<now, retry_after, DEFAULT_LIMITS, METHOD_LIMITS, redis, expireAt, task, hist,
                   last, client, db, sync, riot_account, upsert, game_info, arq, enqueue, detail,
                   ingest, sched>>

\* _create_arq_pool(), lines 17-23: create_pool returns a pool or raises
CreateArqPool(t, ok) ==
    /\ t \in DOMAIN pool.tasks
    /\ pool.tasks[t] = "pending"
    /\ pool' = [pool EXCEPT !.tasks[t] = IF ok THEN "done" ELSE "failed"]
    /\ UNCHANGED <<now, retry_after, DEFAULT_LIMITS, METHOD_LIMITS, redis, expireAt, task, hist,
                   last, client, db, sync, riot_account, upsert, game_info, arq, enqueue, detail,
                   ingest, sched>>

\* The event loop resumes a caller whose task has finished
Resume(c) ==
    /\ pool.call[c].pc = "awaiting"
    /\ pool.tasks[pool.call[c].task] # "pending"
    /\ pool' = AfterAwait(pool, c, pool.call[c], pool.call[c].task)
    /\ UNCHANGED <<now, retry_after, DEFAULT_LIMITS, METHOD_LIMITS, redis, expireAt, task, hist,
                   last, client, db, sync, riot_account, upsert, game_info, arq, enqueue, detail,
                   ingest, sched>>

\* close_arq_pool(), lines 48-59: nothing without a task; else the task is
\* awaited and pool.aclose() begun
CloseArqPool(c) ==
    /\ pool.call[c].pc \in {"idle", "returned", "raised"}
    /\ pool.call[c].calls < MaxPoolCalls
    /\ LET f == NewPoolCall(c, "close")
       IN  pool' = IF pool.task = None
                   THEN [pool EXCEPT !.call[c] = [f EXCEPT !.pc = "returned"]]
                   ELSE IF pool.tasks[pool.task[1]] = "pending"
                   THEN [pool EXCEPT !.call[c] = [f EXCEPT !.pc = "awaiting",
                                                           !.task = pool.task[1],
                                                           !.waited = TRUE]]
                   ELSE AfterAwait(pool, c, f, pool.task[1])
    /\ UNCHANGED <<now, retry_after, DEFAULT_LIMITS, METHOD_LIMITS, redis, expireAt, task, hist,
                   last, client, db, sync, riot_account, upsert, game_info, arq, enqueue, detail,
                   ingest, sched>>

\* Lines 59-62: pool.aclose() ends, and the reference is cleared if it is
\* still this task
AcloseDone(c) ==
    /\ pool.call[c].pc = "aclose"
    /\ LET t == pool.call[c].task
       IN  pool' = [pool EXCEPT !.closed = @ \cup {t},
                                !.task = ClearedIfSame(pool.task, t),
                                !.call[c].pc = "returned"]
    /\ UNCHANGED <<now, retry_after, DEFAULT_LIMITS, METHOD_LIMITS, redis, expireAt, task, hist,
                   last, client, db, sync, riot_account, upsert, game_info, arq, enqueue, detail,
                   ingest, sched>>

----------------------------------------------------------------------------
(* SpecPoolGet: coroutines call get_arq_pool;                               *)
(* SpecPool: they call get_arq_pool and close_arq_pool.                     *)

InitPool ==
    /\ InitSyncOnly
    /\ NoSync
    /\ NoAccounts
    /\ NoDetails
    /\ NoIngest
    /\ sched = << >>
    /\ pool = NoPool

NextPoolGet ==
    \/ \E c \in PoolCallers : GetArqPool(c)
    \/ \E t \in 1..MaxPoolTasks, ok \in BOOLEAN : CreateArqPool(t, ok)
    \/ \E c \in PoolCallers : Resume(c)

SpecPoolGet == InitPool /\ [][NextPoolGet]_vars

NextPool ==
    \/ \E c \in PoolCallers : GetArqPool(c)
    \/ \E t \in 1..MaxPoolTasks, ok \in BOOLEAN : CreateArqPool(t, ok)
    \/ \E c \in PoolCallers : Resume(c)
    \/ \E c \in PoolCallers : CloseArqPool(c)
    \/ \E c \in PoolCallers : AcloseDone(c)

SpecPool == InitPool /\ [][NextPool]_vars

----------------------------------------------------------------------------
(* Properties of get_arq_pool, over SpecPoolGet *)

\* The tasks in state st
TasksIn(st) == {t \in DOMAIN pool.tasks : pool.tasks[t] = st}

\* C32: however many get_arq_pool calls run while no pool exists, at most one
\* pool is created, by one create_pool call unless a creation failed, every
\* call that returns hands out that pool, and once it exists no further task
\* is made.
C32_PoolCreatedOnce ==
    /\ Cardinality(TasksIn("done")) <= 1
    /\ TasksIn("failed") = {} => Len(pool.tasks) <= 1
    /\ \A t \in TasksIn("done") : t = Len(pool.tasks) /\ pool.task = <<t>>
    /\ \A c \in PoolCallers :
          pool.call[c].pc = "returned" =>
              /\ pool.call[c].result # None
              /\ TasksIn("done") = {pool.call[c].result[1]}

\* Three callers waited for the one creation and got its pool, one of them
\* again on a later call
C32_Witness ==
    /\ Len(pool.tasks) = 1
    /\ \A c \in PoolCallers :
          /\ pool.call[c].pc = "returned"
          /\ pool.call[c].result = <<1>>
    /\ \E c \in PoolCallers : pool.call[c].calls = 2 /\ ~pool.call[c].waited
    /\ \E c, e \in PoolCallers : c # e /\ pool.call[c].waited /\ pool.call[e].waited

----------------------------------------------------------------------------
(* Properties of close_arq_pool, over SpecPool *)

\* C39: get_arq_pool never hands out a pool on which closing has begun; the
\* reference does not name a pool that is closed, so that the next
\* get_arq_pool makes a fresh one; and close_arq_pool without a task leaves
\* everything as it is.
C39_NoPoolHandedOutWhileClosing ==
    /\ \A c \in PoolCallers :
          (pool.call[c].op = "get" /\ pool.call[c].pc = "returned") => ~pool.call[c].stale
    /\ pool.task # None => pool.task[1] \notin pool.closed
    /\ \A c \in PoolCallers :
          (pool.call[c].op = "close" /\ pool.call[c].pc = "returned" /\ pool.call[c].task = 0)
              => pool.call[c].result = None

----------------------------------------------------------------------------
(* SpecBusy: the concurrent callers of SpecRace, on a store that holds the  *)
(* record of one earlier request.                                           *)

\* The store after _record_all_buckets("unknown") at time 0 under tables D
BusyStore(D) ==
    LET none == [k \in Keys |-> << >>]
        never == [k \in Keys |-> 0]
        w1 == RecordRequest(none, never, GetKey(AppBuckets[1]), 0,
                            D[AppBuckets[1]].window_seconds)
    IN  RecordRequest(w1.redis, w1.expireAt, GetKey(AppBuckets[2]), 0,
                      D[AppBuckets[2]].window_seconds)

InitBusy ==
    /\ now = 0
    /\ retry_after = 0
    /\ NoClients
    /\ NoSync
    /\ NoJobs
    /\ InitTasks
    /\ \E bucket \in EndpointBuckets, headers \in SmallHeaderCases :
          LET r == UpdateFromHeaders(DefaultLimits, MethodLimits, bucket, headers)
          IN  /\ DEFAULT_LIMITS = r.D
              /\ METHOD_LIMITS = r.M
              /\ redis = BusyStore(r.D).redis
              /\ expireAt = BusyStore(r.D).expireAt

SpecBusy == InitBusy /\ [][NextRace]_vars

----------------------------------------------------------------------------
(* Properties of _check_all_buckets, over SpecBusy *)

\* The buckets _check_all_buckets(bucket) is about
Applicable(bucket) == {bucket} \cup Range(AppBuckets)

\* The buckets a pass at frame f has not found to admit: all of them at the
\* check of the call's bucket, then the global buckets from the one checked on
Unchecked(f) ==
    IF f.stage = 1 THEN Applicable(f.bucket)
    ELSE {AppBuckets[k] : k \in (f.stage - 1)..Len(AppBuckets)} \ {f.bucket}

\* C33: when a pass of _check_all_buckets denies, the wait it returns is at
\* least the wait of every applicable bucket that denies at that moment; the
\* buckets the pass found to admit earlier, which another caller may have
\* filled since, are left out.
C33_ReportsLargestWait ==
    [][\A c \in Callers :
          (task[c].pc = "check" /\ task'[c].pc = "sleep") =>
              \A b \in Unchecked(task[c]) :
                  (~CheckLimit(b).allowed /\ ~CheckLimit(b).raised)
                      => ReportedWait(task[c]) >= CheckLimit(b).wait]_vars

----------------------------------------------------------------------------
(* The order of wait_if_needed and the HTTP request, over SpecClient *)

\* The wait_if_needed call of client c has returned, after a pass that
\* admitted and recorded the request in the call's bucket and in the global
\* buckets
Admitted(c) ==
    /\ task[c].pc = "done"
    /\ hist[c].passes >= 1
    /\ hist[c].inserted[client[c].bucket] = 1
    /\ \A k \in DOMAIN AppBuckets : hist[c].inserted[AppBuckets[k]] = 1

\* C34: every HTTP request of a client call comes after a wait_if_needed of
\* its own that has returned with the admission recorded, so the requests
\* issued never outnumber the wait_if_needed calls that have returned; and a
\* call whose wait_if_needed raised has issued no request for that attempt.
C34_RequestFollowsAdmission ==
    /\ [](\A c \in Clients :
            /\ client[c].requests <= client[c].waits
            /\ client[c].pc = "wait" => client[c].requests = client[c].waits - 1
            /\ client[c].pc = "crashed" => client[c].requests = client[c].waits - 1)
    /\ [][\A c \in Clients :
            client'[c].requests # client[c].requests =>
                /\ Admitted(c)
                /\ client[c].requests = client[c].waits - 1
                /\ client'[c].requests = client[c].requests + 1
                /\ client'[c].waits = client[c].waits]_vars

\* A call that made three requests, each after its own wait, one of which
\* slept, and returned
C34_Witness ==
    /\ client[1].pc = "returned"
    /\ client[1].requests = 3
    /\ client[1].waits = 3
    /\ client[1].limiterSleeps >= 1

----------------------------------------------------------------------------
(* The commit of fetch_match_details_job, over SpecDetail *)

\* C35: a detail job commits at most once, after the last id of its batch
\* was processed, and not at all when it updated no row; and game_info, as
\* other sessions see it, changes only by the commit of a run, to what that
\* run has staged.
C35_OneCommitAtTheEnd ==
    /\ [](\A w \in Workers : detail[w].fn = "job" =>
            /\ detail[w].commits <= 1
            /\ detail[w].commits = 1 =>
                  /\ detail[w].pc = "returned"
                  /\ detail[w].i = Len(detail[w].match_ids)
                  /\ detail[w].fetched >= 1
            /\ (detail[w].pc = "returned" /\ detail[w].fetched = 0) => detail[w].commits = 0
            /\ detail[w].pc = "failed" => detail[w].commits = 0)
    /\ [][game_info' # game_info =>
            \E w \in Workers :
                /\ detail[w].pc = "commit"
                /\ detail[w].i = Len(detail[w].match_ids)
                /\ detail'[w].pc = "returned"
                /\ detail'[w].commits = 1
                /\ game_info' = detail[w].staged @@ game_info]_vars

\* A batch of five with one failed fetch, committed once
C35_Witness ==
    \E w \in Workers :
        /\ detail[w].fn = "job"
        /\ detail[w].pc = "returned"
        /\ Len(detail[w].match_ids) = 5
        /\ detail[w].fetched = 4
        /\ detail[w].commits = 1
        /\ Len(detail[w].errors) = 1

----------------------------------------------------------------------------
(* SpecSleep: the sleep time of a denied pass of wait_if_needed, for every  *)
(* retry count, reported wait and jitter.                                   *)

MaxWaitSeconds == 30    \* the largest wait a denying check reports

\* backoff * JITTER_FACTOR * random.random(): the whole seconds below half
\* the backoff
WholeJitters(backoff) == {j \in 0..backoff : 2 * j < backoff}

\* Lines 270-288: a pass with retries denied passes before it is denied with
\* wait_seconds, and the sleep time is computed
DeniedPass(retries, wait_seconds, jitter) ==
    /\ last' = [op |-> "sleep", retries |-> retries, wait_seconds |-> wait_seconds,
                jitter |-> jitter,
                sleep_time |-> SleepTime(wait_seconds, Backoff(retries), jitter)]
    /\ UNCHANGED <<now, retry_after, DEFAULT_LIMITS, METHOD_LIMITS, redis, expireAt, task, hist,
                   client, db, sync, jobvars>>

InitSleep ==
    /\ InitSyncOnly
    /\ NoSync
    /\ NoJobs

NextSleep ==
    \E retries \in 0..(MAX_RETRIES - 1), wait_seconds \in 0..MaxWaitSeconds :
        \E jitter \in WholeJitters(Backoff(retries)) :
            DeniedPass(retries, wait_seconds, jitter)

SpecSleep == InitSleep /\ [][NextSleep]_vars

----------------------------------------------------------------------------
(* Properties of the sleep of wait_if_needed, over SpecSleep *)

\* min(BASE_BACKOFF_SECONDS * 2^r, MAX_BACKOFF_SECONDS)
CappedBackoff(r) ==
    IF BASE_BACKOFF_SECONDS * Pow2(r) < MAX_BACKOFF_SECONDS
    THEN BASE_BACKOFF_SECONDS * Pow2(r) ELSE MAX_BACKOFF_SECONDS

\* C36: on the r-th denied pass, r = 0..4, the sleep is at least the reported
\* wait and at least min(BASE * 2^r, 60), and at most
\* max(reported wait, 1.5 * min(BASE * 2^r, 60)).
C36_SleepBounds ==
    last.op = "sleep" =>
        /\ last.retries \in 0..4
        /\ last.sleep_time >= last.wait_seconds
        /\ last.sleep_time >= CappedBackoff(last.retries)
        /\ \/ last.sleep_time <= last.wait_seconds
           \/ 2 * last.sleep_time <= 3 * CappedBackoff(last.retries)
        /\ CappedBackoff(last.retries) <= MAX_BACKOFF_SECONDS

\* The fifth denied pass, with a jitter, sleeping longer than the reported
\* wait
C36_Witness ==
    /\ last.op = "sleep"
    /\ last.retries = 4
    /\ last.jitter > 0
    /\ last.wait_seconds > 0
    /\ last.sleep_time > last.wait_seconds

----------------------------------------------------------------------------
(* The cooldown deadline, over SpecSeq *)

\* C37: while a cooldown is active, no step moves its deadline earlier.
C37_DeadlineNeverMovesEarlier ==
    [][retry_after > now => retry_after' >= retry_after]_vars

----------------------------------------------------------------------------
(* The job keys of unequal batches, over SpecEnqueue *)

\* The game ids in the jobs queued
IdsQueued == UNION {Range(arq.queued[k].args) : k \in DOMAIN arq.queued}

\* C38: when enqueue_missing_detail_jobs has returned, every id it found
\* without details is in a job of the queue.
C38_EveryMissingIdIsQueued ==
    \A c \in Paths :
        enqueue[c].pc = "returned" => Range(enqueue[c].missing_details) \subseteq IdsQueued

====
